---- MODULE Spec2Model ----
(***************************************************************************)
(* wxbench: normalisation of provider weather payloads into canonical      *)
(* Observation / ForecastPeriod records, daily aggregation of forecast     *)
(* periods, and their explosion into one-metric DataPoint rows.            *)
(*                                                                         *)
(* Every operation of this part of the program is a pure function; the     *)
(* state machine records the last call (operation and arguments) and its   *)
(* outcome (a returned value or a raised exception).                       *)
(***************************************************************************)
EXTENDS Integers, Sequences, FiniteSets, TLC

VARIABLES call, result, attempt, sent, sleeps, pc, frame, database, invocations

vars == <<call, result, attempt, sent, sleeps, pc, frame, database, invocations>>

----------------------------------------------------------------------------
(* Optional values: Python None is the empty tuple, a present value v is   *)
(* the one-element tuple <<v>>.                                            *)

None == <<>>

Some(v) == <<v>>

IsNone(o) == o = <<>>

Get(o) == o[1]

(* Outcome of a call: a returned value, or the class of the exception.     *)
Returned(v) == [status |-> "ok", value |-> v]

Raised(exc) == [status |-> exc, value |-> <<>>]

(* No collection run is in progress: no frame of collect_all, no database  *)
(* file, no invocation of run_hourly.                                      *)
NoRun == frame = <<>> /\ database = <<>> /\ invocations = <<>>

(* No request is being sent: the retry loop of send_with_retries has not   *)
(* been entered.                                                           *)
NoRequest == attempt = 0 /\ sent = <<>> /\ sleeps = <<>> /\ pc = "idle" /\ NoRun

RECURSIVE SubsetsUpTo(_, _)
(* The subsets of S with at most k elements. *)
SubsetsUpTo(S, k) ==
    IF k = 0 THEN {{}}
    ELSE LET prev == SubsetsUpTo(S, k - 1)
         IN  prev \cup {p \cup {x} : p \in prev, x \in S}

Range(s) == {s[i] : i \in DOMAIN s}

----------------------------------------------------------------------------
(* Bounds of the explored inputs.                                          *)

MaxPresent == 3

----------------------------------------------------------------------------
(* Time.  An instant is a number of seconds on the UTC time line; an aware *)
(* datetime is an instant together with the UTC offset of its tzinfo.      *)
(* Aware datetimes compare and subtract by instant; replace() acts on the  *)
(* wall-clock fields of the datetime's own offset.                         *)

HOUR == 3600

DAY == 86400

DT(utc, off) == [utc |-> utc, off |-> off]

(* Start of daylight saving time of America/Los_Angeles inside the modelled *)
(* window: 02:00 local standard time of day 1, i.e. 10:00 UTC.              *)
DstStart == DAY + 10 * HOUR

TzNames == {"UTC", "America/Los_Angeles", "Asia/Kolkata"}

(* ZoneInfo(tz_name).utcoffset at instant t, in seconds. *)
utcoffset(tz_name, t) ==
    CASE tz_name = "UTC" -> 0
      [] tz_name = "Asia/Kolkata" -> 5 * HOUR + 1800
      [] tz_name = "America/Los_Angeles" ->
            IF t >= DstStart THEN -7 * HOUR ELSE -8 * HOUR

(* value.astimezone(ZoneInfo(tz_name)).date(), as a day number. *)
local_day(value, tz_name) == (value.utc + utcoffset(tz_name, value.utc)) \div DAY

(* value.replace(minute=0, second=0, microsecond=0) *)
replace_minute_second_zero(value) ==
    LET wall == value.utc + value.off
    IN  DT((wall - (wall % HOUR)) - value.off, value.off)

----------------------------------------------------------------------------
(* Metric registries of the DataPoint materializer.                        *)

PRODUCT_OBSERVATION == "observation"

PRODUCT_FORECAST_HOURLY == "forecast_hourly"

PRODUCT_FORECAST_DAILY == "forecast_daily"

M(field_name, metric_type, unit, is_text) ==
    [field_name |-> field_name, metric_type |-> metric_type,
     unit |-> unit, is_text |-> is_text]

OBSERVATION_METRICS ==
    <<
      M("temperature_c", "temperature_air", Some("C"), FALSE),
      M("temperature_apparent_c", "temperature_apparent", Some("C"), FALSE),
      M("temperature_apparent_shade_c", "temperature_apparent_shade", Some("C"), FALSE),
      M("temperature_apparent_alt_c", "temperature_apparent_alt", Some("C"), FALSE),
      M("temperature_wind_chill_c", "temperature_wind_chill", Some("C"), FALSE),
      M("temperature_wet_bulb_c", "temperature_wet_bulb", Some("C"), FALSE),
      M("temperature_wet_bulb_globe_c", "temperature_wet_bulb_globe", Some("C"), FALSE),
      M("temperature_departure_24h_c", "temperature_departure_24h", Some("C"), FALSE),
      M("dewpoint_c", "dewpoint", Some("C"), FALSE),
      M("temperature_in_c", "temperature_indoor", Some("C"), FALSE),
      M("temperature_apparent_in_c", "temperature_apparent_indoor", Some("C"), FALSE),
      M("dewpoint_in_c", "dewpoint_indoor", Some("C"), FALSE),
      M("wind_speed_kph", "wind_speed", Some("kph"), FALSE),
      M("wind_direction_deg", "wind_direction", Some("deg"), FALSE),
      M("wind_gust_kph", "wind_gust", Some("kph"), FALSE),
      M("wind_gust_daily_max_kph", "wind_gust_daily_max", Some("kph"), FALSE),
      M("wind_direction_avg_10m_deg", "wind_direction_avg_10m", Some("deg"), FALSE),
      M("pressure_kpa", "pressure", Some("kPa"), FALSE),
      M("pressure_absolute_kpa", "pressure_absolute", Some("kPa"), FALSE),
      M("pressure_sea_level_kpa", "pressure_sea_level", Some("kPa"), FALSE),
      M("pressure_surface_kpa", "pressure_surface", Some("kPa"), FALSE),
      M("altimeter_kpa", "altimeter", Some("kPa"), FALSE),
      M("relative_humidity", "humidity", Some("%"), FALSE),
      M("relative_humidity_in", "humidity_indoor", Some("%"), FALSE),
      M("visibility_km", "visibility", Some("km"), FALSE),
      M("cloud_cover_pct", "cloud_cover", Some("%"), FALSE),
      M("cloud_base_km", "cloud_base", Some("km"), FALSE),
      M("cloud_ceiling_km", "cloud_ceiling", Some("km"), FALSE),
      M("precipitation_last_hour_mm", "precip_amount", Some("mm"), FALSE),
      M("precipitation_daily_mm", "precip_total_day", Some("mm"), FALSE),
      M("precipitation_weekly_mm", "precip_total_week", Some("mm"), FALSE),
      M("precipitation_monthly_mm", "precip_total_month", Some("mm"), FALSE),
      M("precipitation_yearly_mm", "precip_total_year", Some("mm"), FALSE),
      M("precipitation_event_mm", "precip_total_event", Some("mm"), FALSE),
      M("precipitation_rate_rain_mm_hr", "precip_rate_rain", Some("mm/hr"), FALSE),
      M("precipitation_rate_snow_mm_hr", "precip_rate_snow", Some("mm/hr"), FALSE),
      M("precipitation_rate_sleet_mm_hr", "precip_rate_sleet", Some("mm/hr"), FALSE),
      M("precipitation_rate_freezing_rain_mm_hr", "precip_rate_freezing_rain", Some("mm/hr"), FALSE),
      M("precipitation_rate_ice_mm_hr", "precip_rate_ice", Some("mm/hr"), FALSE),
      M("uv_index", "uv_index", None, FALSE),
      M("uv_health_concern", "uv_health_concern", None, FALSE),
      M("solar_radiation_wm2", "solar_radiation", Some("W/m2"), FALSE),
      M("battery_in", "battery_in", None, FALSE),
      M("battery_out", "battery_out", None, FALSE),
      M("condition", "condition", None, TRUE),
      M("precipitation_type", "precip_type", None, TRUE),
      M("pressure_tendency", "pressure_tendency", None, TRUE),
      M("condition_code", "condition_code", None, FALSE)
    >>

FORECAST_METRICS ==
    <<
      M("temperature_c", "temperature_air", Some("C"), FALSE),
      M("dewpoint_c", "dewpoint", Some("C"), FALSE),
      M("temperature_apparent_c", "temperature_apparent", Some("C"), FALSE),
      M("temperature_apparent_shade_c", "temperature_apparent_shade", Some("C"), FALSE),
      M("temperature_apparent_alt_c", "temperature_apparent_alt", Some("C"), FALSE),
      M("temperature_wind_chill_c", "temperature_wind_chill", Some("C"), FALSE),
      M("temperature_wet_bulb_c", "temperature_wet_bulb", Some("C"), FALSE),
      M("temperature_wet_bulb_globe_c", "temperature_wet_bulb_globe", Some("C"), FALSE),
      M("temperature_high_c", "temperature_high", Some("C"), FALSE),
      M("temperature_low_c", "temperature_low", Some("C"), FALSE),
      M("precipitation_probability", "precip_probability", Some("%"), FALSE),
      M("precipitation_probability_rain", "precip_probability_rain", Some("%"), FALSE),
      M("precipitation_probability_snow", "precip_probability_snow", Some("%"), FALSE),
      M("precipitation_probability_ice", "precip_probability_ice", Some("%"), FALSE),
      M("precipitation_probability_thunderstorm", "precip_probability_thunderstorm", Some("%"), FALSE),
      M("precipitation_mm", "precip_amount", Some("mm"), FALSE),
      M("precipitation_amount_rain_mm", "precip_amount_rain", Some("mm"), FALSE),
      M("precipitation_amount_snow_mm", "precip_amount_snow", Some("mm"), FALSE),
      M("precipitation_amount_sleet_mm", "precip_amount_sleet", Some("mm"), FALSE),
      M("precipitation_amount_ice_mm", "precip_amount_ice", Some("mm"), FALSE),
      M("precipitation_amount_snow_lwe_mm", "precip_amount_snow_lwe", Some("mm"), FALSE),
      M("precipitation_amount_sleet_lwe_mm", "precip_amount_sleet_lwe", Some("mm"), FALSE),
      M("precipitation_amount_ice_lwe_mm", "precip_amount_ice_lwe", Some("mm"), FALSE),
      M("precipitation_rate_rain_mm_hr", "precip_rate_rain", Some("mm/hr"), FALSE),
      M("precipitation_rate_snow_mm_hr", "precip_rate_snow", Some("mm/hr"), FALSE),
      M("precipitation_rate_sleet_mm_hr", "precip_rate_sleet", Some("mm/hr"), FALSE),
      M("precipitation_rate_freezing_rain_mm_hr", "precip_rate_freezing_rain", Some("mm/hr"), FALSE),
      M("precipitation_rate_ice_mm_hr", "precip_rate_ice", Some("mm/hr"), FALSE),
      M("snow_depth_cm", "snow_depth", Some("cm"), FALSE),
      M("evapotranspiration_mm", "evapotranspiration", Some("mm"), FALSE),
      M("solar_irradiance_wm2", "solar_irradiance", Some("W/m2"), FALSE),
      M("sun_hours", "sun_hours", Some("hour"), FALSE),
      M("wind_speed_kph", "wind_speed", Some("kph"), FALSE),
      M("wind_direction_deg", "wind_direction", Some("deg"), FALSE),
      M("wind_gust_kph", "wind_gust", Some("kph"), FALSE),
      M("uv_index", "uv_index", None, FALSE),
      M("uv_health_concern", "uv_health_concern", None, FALSE),
      M("relative_humidity", "humidity", Some("%"), FALSE),
      M("visibility_km", "visibility", Some("km"), FALSE),
      M("pressure_sea_level_kpa", "pressure_sea_level", Some("kPa"), FALSE),
      M("pressure_surface_kpa", "pressure_surface", Some("kPa"), FALSE),
      M("altimeter_kpa", "altimeter", Some("kPa"), FALSE),
      M("cloud_cover_pct", "cloud_cover", Some("%"), FALSE),
      M("cloud_base_km", "cloud_base", Some("km"), FALSE),
      M("cloud_ceiling_km", "cloud_ceiling", Some("km"), FALSE),
      M("summary", "condition", None, TRUE),
      M("condition_code", "condition_code", None, FALSE)
    >>

ObservationFields == {OBSERVATION_METRICS[i].field_name : i \in DOMAIN OBSERVATION_METRICS}

ForecastFields == {FORECAST_METRICS[i].field_name : i \in DOMAIN FORECAST_METRICS}

(* Fields the registries declare as text. *)
TextFields == {"condition", "precipitation_type", "pressure_tendency", "summary"}

----------------------------------------------------------------------------
(* domain/datapoints.py                                                    *)

lead_label_unsigned_zero(offset, unit) ==
    LET sign == IF offset > 0 THEN "+" ELSE ""
        suffix == IF unit = "hour" THEN "h" ELSE "d"
    IN  sign \o ToString(offset) \o suffix

(* f"{sign}{offset}{suffix}": the text of the three parts, the offset      *)
(* formatted in decimal with its own minus sign.                           *)
lead_label(offset, unit) ==
    LET sign == IF offset >= 0 THEN "+" ELSE ""
        suffix == IF unit = "hour" THEN "h" ELSE "d"
    IN  sign \o ToString(offset) \o suffix

(* source_fields is a mapping (a function on a set of field names);        *)
(* (source_fields or {}).get(field_name)                                   *)
source_field_of(source_fields, field_name) ==
    IF field_name \in DOMAIN source_fields THEN Some(source_fields[field_name]) ELSE None

observation_point_with_valid_start(observation, entry, value, run_at, tz_name, source_fields) ==
    [provider |-> observation.provider,
     product_kind |-> PRODUCT_OBSERVATION,
     metric_type |-> entry.metric_type,
     value_num |-> IF entry.is_text THEN None ELSE Some(Get(value)),
     value_text |-> IF entry.is_text THEN Some(Get(value)) ELSE None,
     unit |-> entry.unit,
     value_raw |-> None,
     unit_raw |-> None,
     observed_at |-> Some(observation.observed_at),
     valid_start |-> Some(observation.observed_at),
     valid_end |-> None,
     issued_at |-> None,
     run_at |-> Some(run_at),
     local_day |-> Some(local_day(observation.observed_at, tz_name)),
     lead_unit |-> None,
     lead_offset |-> None,
     lead_label |-> None,
     latitude |-> observation.location.latitude,
     longitude |-> observation.location.longitude,
     station |-> observation.station,
     source_field |-> source_field_of(source_fields, entry.field_name),
     quality_flag |-> None]

(* The DataPoint appended for one registry entry of an observation. *)
observation_point(observation, entry, value, run_at, tz_name, source_fields) ==
    [provider |-> observation.provider,
     product_kind |-> PRODUCT_OBSERVATION,
     metric_type |-> entry.metric_type,
     value_num |-> IF entry.is_text THEN None ELSE Some(Get(value)),
     value_text |-> IF entry.is_text THEN Some(Get(value)) ELSE None,
     unit |-> entry.unit,
     value_raw |-> None,
     unit_raw |-> None,
     observed_at |-> Some(observation.observed_at),
     valid_start |-> None,
     valid_end |-> None,
     issued_at |-> None,
     run_at |-> Some(run_at),
     local_day |-> Some(local_day(observation.observed_at, tz_name)),
     lead_unit |-> None,
     lead_offset |-> None,
     lead_label |-> None,
     latitude |-> observation.location.latitude,
     longitude |-> observation.location.longitude,
     station |-> observation.station,
     source_field |-> source_field_of(source_fields, entry.field_name),
     quality_flag |-> None]

RECURSIVE observation_loop(_, _, _, _, _, _)
(* The for loop over _OBSERVATION_METRICS from registry index i on. *)
observation_loop(i, points, observation, run_at, tz_name, source_fields) ==
    IF i > Len(OBSERVATION_METRICS) THEN points
    ELSE LET entry == OBSERVATION_METRICS[i]
             value == observation.values[entry.field_name]
         IN  IF IsNone(value)
             THEN observation_loop(i + 1, points, observation, run_at, tz_name, source_fields)
             ELSE observation_loop(
                     i + 1,
                     Append(points,
                            observation_point(observation, entry, value, run_at,
                                              tz_name, source_fields)),
                     observation, run_at, tz_name, source_fields)

observation_to_datapoints_skip_first(observation, run_at, tz_name, source_fields) ==
    Returned(observation_loop(2, <<>>, observation, run_at, tz_name, source_fields))

observation_to_datapoints(observation, run_at, tz_name, source_fields) ==
    Returned(observation_loop(1, <<>>, observation, run_at, tz_name, source_fields))

hourly_lead_offset_no_run_truncation(start_time, run_at) ==
    LET forecast_hour == replace_minute_second_zero(start_time)
    IN  (forecast_hour.utc - run_at.utc) \div HOUR

(* lead_offset of an hourly product. *)
hourly_lead_offset(start_time, run_at) ==
    LET run_hour == replace_minute_second_zero(run_at)
        forecast_hour == replace_minute_second_zero(start_time)
        delta == forecast_hour.utc - run_hour.utc
    IN  delta \div HOUR

daily_lead_offset_utc_dates(start_time, run_at, tz_name) ==
    local_day(start_time, "UTC") - local_day(run_at, "UTC")

(* lead_offset of a daily product. *)
daily_lead_offset(start_time, run_at, tz_name) ==
    LET forecast_day == local_day(start_time, tz_name)
        run_day == local_day(run_at, tz_name)
    IN  forecast_day - run_day

forecast_local_day_always(product_kind, day) == Some(day)

(* The local_day argument of the DataPoint of a forecast. *)
forecast_local_day(product_kind, day) ==
    IF product_kind = PRODUCT_FORECAST_DAILY THEN Some(day) ELSE None

forecast_point_num_always(forecast, entry, value, run_at, tz_name, product_kind, source_fields, quality_flag, lead_unit, lead_offset, label, day) ==
    [provider |-> forecast.provider,
     product_kind |-> product_kind,
     metric_type |-> entry.metric_type,
     value_num |-> Some(Get(value)),
     value_text |-> IF entry.is_text THEN Some(Get(value)) ELSE None,
     unit |-> entry.unit,
     value_raw |-> None,
     unit_raw |-> None,
     observed_at |-> None,
     valid_start |-> Some(forecast.start_time),
     valid_end |-> Some(forecast.end_time),
     issued_at |-> Some(forecast.issued_at),
     run_at |-> Some(run_at),
     local_day |-> forecast_local_day(product_kind, day),
     lead_unit |-> Some(lead_unit),
     lead_offset |-> Some(lead_offset),
     lead_label |-> Some(label),
     latitude |-> forecast.location.latitude,
     longitude |-> forecast.location.longitude,
     station |-> None,
     source_field |-> source_field_of(source_fields, entry.field_name),
     quality_flag |-> quality_flag]

(* The DataPoint appended for one registry entry of a forecast period. *)
forecast_point(forecast, entry, value, run_at, tz_name, product_kind, source_fields, quality_flag, lead_unit, lead_offset, label, day) ==
    [provider |-> forecast.provider,
     product_kind |-> product_kind,
     metric_type |-> entry.metric_type,
     value_num |-> IF entry.is_text THEN None ELSE Some(Get(value)),
     value_text |-> IF entry.is_text THEN Some(Get(value)) ELSE None,
     unit |-> entry.unit,
     value_raw |-> None,
     unit_raw |-> None,
     observed_at |-> None,
     valid_start |-> Some(forecast.start_time),
     valid_end |-> Some(forecast.end_time),
     issued_at |-> Some(forecast.issued_at),
     run_at |-> Some(run_at),
     local_day |-> forecast_local_day(product_kind, day),
     lead_unit |-> Some(lead_unit),
     lead_offset |-> Some(lead_offset),
     lead_label |-> Some(label),
     latitude |-> forecast.location.latitude,
     longitude |-> forecast.location.longitude,
     station |-> None,
     source_field |-> source_field_of(source_fields, entry.field_name),
     quality_flag |-> quality_flag]

RECURSIVE forecast_loop_prepend(_, _, _, _, _, _, _, _, _, _, _, _)
forecast_loop_prepend(i, points, forecast, run_at, tz_name, product_kind, source_fields, quality_flag, lead_unit, lead_offset, label, day) ==
    IF i > Len(FORECAST_METRICS) THEN points
    ELSE LET entry == FORECAST_METRICS[i]
             value == forecast.values[entry.field_name]
         IN  IF IsNone(value)
             THEN forecast_loop_prepend(i + 1, points, forecast, run_at, tz_name, product_kind,
                                source_fields, quality_flag, lead_unit, lead_offset,
                                label, day)
             ELSE forecast_loop_prepend(
                     i + 1,
                     <<forecast_point(forecast, entry, value, run_at, tz_name,
                                           product_kind, source_fields, quality_flag,
                                           lead_unit, lead_offset, label, day)>>
                               \o points,
                     forecast, run_at, tz_name, product_kind, source_fields,
                     quality_flag, lead_unit, lead_offset, label, day)

RECURSIVE forecast_loop(_, _, _, _, _, _, _, _, _, _, _, _)
(* The for loop over _FORECAST_METRICS from registry index i on. *)
forecast_loop(i, points, forecast, run_at, tz_name, product_kind, source_fields, quality_flag, lead_unit, lead_offset, label, day) ==
    IF i > Len(FORECAST_METRICS) THEN points
    ELSE LET entry == FORECAST_METRICS[i]
             value == forecast.values[entry.field_name]
         IN  IF IsNone(value)
             THEN forecast_loop(i + 1, points, forecast, run_at, tz_name, product_kind,
                                source_fields, quality_flag, lead_unit, lead_offset,
                                label, day)
             ELSE forecast_loop(
                     i + 1,
                     Append(points,
                            forecast_point(forecast, entry, value, run_at, tz_name,
                                           product_kind, source_fields, quality_flag,
                                           lead_unit, lead_offset, label, day)),
                     forecast, run_at, tz_name, product_kind, source_fields,
                     quality_flag, lead_unit, lead_offset, label, day)

forecast_to_datapoints_observation_allowed(forecast, run_at, tz_name, product_kind, source_fields, quality_flag) ==
    IF product_kind \notin {PRODUCT_OBSERVATION, PRODUCT_FORECAST_HOURLY, PRODUCT_FORECAST_DAILY}
    THEN Raised("ValueError")
    ELSE LET lead_unit == IF product_kind = PRODUCT_FORECAST_HOURLY THEN "hour" ELSE "day"
             lead_offset == IF lead_unit = "hour"
                            THEN hourly_lead_offset(forecast.start_time, run_at)
                            ELSE daily_lead_offset(forecast.start_time, run_at, tz_name)
             label == lead_label(lead_offset, lead_unit)
             day == local_day(forecast.start_time, tz_name)
         IN  Returned(forecast_loop(1, <<>>, forecast, run_at, tz_name, product_kind,
                                    source_fields, quality_flag, lead_unit, lead_offset,
                                    label, day))

forecast_to_datapoints(forecast, run_at, tz_name, product_kind, source_fields, quality_flag) ==
    IF product_kind \notin {PRODUCT_FORECAST_HOURLY, PRODUCT_FORECAST_DAILY}
    THEN Raised("ValueError")
    ELSE LET lead_unit == IF product_kind = PRODUCT_FORECAST_HOURLY THEN "hour" ELSE "day"
             lead_offset == IF lead_unit = "hour"
                            THEN hourly_lead_offset(forecast.start_time, run_at)
                            ELSE daily_lead_offset(forecast.start_time, run_at, tz_name)
             label == lead_label(lead_offset, lead_unit)
             day == local_day(forecast.start_time, tz_name)
         IN  Returned(forecast_loop(1, <<>>, forecast, run_at, tz_name, product_kind,
                                    source_fields, quality_flag, lead_unit, lead_offset,
                                    label, day))

----------------------------------------------------------------------------
(* domain/aggregate.py                                                     *)

(* Numbers produced by the reducers are exact rationals <<n, d>> in lowest *)
(* terms with d > 0 (statistics.mean of [1, 2] is 1.5).                    *)

RECURSIVE GCD(_, _)
GCD(a, b) == IF b = 0 THEN a ELSE GCD(b, a % b)

Abs(n) == IF n < 0 THEN -n ELSE n

Q(n, d) ==
    LET g == GCD(Abs(n), d)
    IN  <<n \div g, d \div g>>

RECURSIVE SeqSum(_)
SeqSum(s) == IF s = <<>> THEN 0 ELSE Head(s) + SeqSum(Tail(s))

SeqMax(s) == CHOOSE x \in Range(s) : \A y \in Range(s) : y <= x

SeqMin(s) == CHOOSE x \in Range(s) : \A y \in Range(s) : x <= y

mean_floored(values) == Q(SeqSum(values) \div Len(values), 1)

(* statistics.mean(values) *)
mean(values) == Q(SeqSum(values), Len(values))

present_values_or_zero(entries, field_name) ==
    [i \in DOMAIN entries |->
        IF entries[i].values[field_name] = None THEN 0
        ELSE Get(entries[i].values[field_name])]

(* [p.<field> for p in entries if p.<field> is not None] *)
present_values(entries, field_name) ==
    LET kept == SelectSeq(entries, LAMBDA p : p.values[field_name] # None)
    IN  [i \in DOMAIN kept |-> Get(kept[i].values[field_name])]

REDUCERS ==
    [temperature_c |-> "mean",
     temperature_apparent_c |-> "mean",
     temperature_apparent_shade_c |-> "mean",
     temperature_apparent_alt_c |-> "mean",
     temperature_wind_chill_c |-> "mean",
     temperature_wet_bulb_c |-> "mean",
     temperature_wet_bulb_globe_c |-> "mean",
     dewpoint_c |-> "mean",
     temperature_high_c |-> "high",
     temperature_low_c |-> "low",
     precipitation_probability |-> "max",
     precipitation_probability_rain |-> "max",
     precipitation_probability_snow |-> "max",
     precipitation_probability_ice |-> "max",
     precipitation_probability_thunderstorm |-> "max",
     precipitation_mm |-> "sum",
     precipitation_amount_rain_mm |-> "sum",
     precipitation_amount_snow_mm |-> "sum",
     precipitation_amount_sleet_mm |-> "sum",
     precipitation_amount_ice_mm |-> "sum",
     precipitation_amount_snow_lwe_mm |-> "sum",
     precipitation_amount_sleet_lwe_mm |-> "sum",
     precipitation_amount_ice_lwe_mm |-> "sum",
     precipitation_rate_rain_mm_hr |-> "mean",
     precipitation_rate_snow_mm_hr |-> "mean",
     precipitation_rate_sleet_mm_hr |-> "mean",
     precipitation_rate_freezing_rain_mm_hr |-> "mean",
     precipitation_rate_ice_mm_hr |-> "mean",
     summary |-> "unset",
     wind_speed_kph |-> "max",
     wind_gust_kph |-> "max",
     wind_direction_deg |-> "first",
     uv_index |-> "max",
     uv_health_concern |-> "max",
     relative_humidity |-> "mean",
     visibility_km |-> "mean",
     pressure_sea_level_kpa |-> "mean",
     pressure_surface_kpa |-> "mean",
     altimeter_kpa |-> "mean",
     cloud_cover_pct |-> "mean",
     cloud_base_km |-> "mean",
     cloud_ceiling_km |-> "mean",
     snow_depth_cm |-> "max",
     evapotranspiration_mm |-> "sum",
     solar_irradiance_wm2 |-> "mean",
     sun_hours |-> "sum",
     condition_code |-> "unset"]

temperature_high_c_no_fallback(entries) ==
    LET temp_highs == present_values(entries, "temperature_high_c")
    IN  IF temp_highs # <<>> THEN Some(Q(SeqMax(temp_highs), 1)) ELSE None

(* max(temp_highs) if temp_highs else (max(temps) if temps else None) *)
temperature_high_c(entries) ==
    LET temp_highs == present_values(entries, "temperature_high_c")
        temps == present_values(entries, "temperature_c")
    IN  IF temp_highs # <<>> THEN Some(Q(SeqMax(temp_highs), 1))
        ELSE IF temps # <<>> THEN Some(Q(SeqMax(temps), 1)) ELSE None

(* min(temp_lows) if temp_lows else (min(temps) if temps else None) *)
temperature_low_c(entries) ==
    LET temp_lows == present_values(entries, "temperature_low_c")
        temps == present_values(entries, "temperature_c")
    IN  IF temp_lows # <<>> THEN Some(Q(SeqMin(temp_lows), 1))
        ELSE IF temps # <<>> THEN Some(Q(SeqMin(temps), 1)) ELSE None

(* The keyword argument the daily ForecastPeriod gets for one field. *)
aggregate_field(entries, field_name) ==
    LET values == present_values(entries, field_name)
        kind == REDUCERS[field_name]
    IN  CASE kind = "high" -> temperature_high_c(entries)
          [] kind = "low" -> temperature_low_c(entries)
          [] kind = "unset" -> None
          [] kind = "mean" -> IF values # <<>> THEN Some(mean(values)) ELSE None
          [] kind = "max" -> IF values # <<>> THEN Some(Q(SeqMax(values), 1)) ELSE None
          [] kind = "min" -> IF values # <<>> THEN Some(Q(SeqMin(values), 1)) ELSE None
          [] kind = "sum" -> IF values # <<>> THEN Some(Q(SeqSum(values), 1)) ELSE None
          [] kind = "first" -> IF values # <<>> THEN Some(Q(values[1], 1)) ELSE None

(* The UTC offsets a zone takes. *)
TzOffsets(tz_name) == {utcoffset(tz_name, t) : t \in {0, DstStart}}

(* datetime.combine(day, time.min, tzinfo=ZoneInfo(tz_name)).astimezone(utc): *)
(* the instant at which the wall clock of the zone reads midnight of day.   *)
local_midnight(day, tz_name) ==
    LET off == CHOOSE o \in TzOffsets(tz_name) : utcoffset(tz_name, day * DAY - o) = o
    IN  day * DAY - off

RECURSIVE sorted(_)
(* sorted(keys): the elements of a finite set of numbers in ascending order. *)
sorted(S) ==
    IF S = {} THEN <<>>
    ELSE LET least == CHOOSE x \in S : \A y \in S : x <= y
         IN  <<least>> \o sorted(S \ {least})

(* The ForecastPeriod appended for one day and its entries. *)
daily_period(day, entries, tz_name) ==
    LET day_date == local_day(entries[1].start_time, tz_name)
        start_time == DT(local_midnight(day_date, tz_name), 0)
        end_time == DT(start_time.utc + DAY, 0)
    IN  [provider |-> entries[1].provider,
         location |-> entries[1].location,
         issued_at |-> entries[1].issued_at,
         start_time |-> start_time,
         end_time |-> end_time,
         values |-> [f \in ForecastFields |-> aggregate_field(entries, f)]]

aggregate_daily_from_periods_unsorted(periods, tz_name) ==
    LET day_of(p) == local_day(p.start_time, tz_name)
        firsts == SelectSeq([i \in DOMAIN periods |-> i],
                            LAMBDA i : \A j \in 1..(i - 1) :
                                          day_of(periods[j]) # day_of(periods[i]))
        days == [k \in DOMAIN firsts |-> day_of(periods[firsts[k]])]
        grouped(day) == SelectSeq(periods, LAMBDA p : day_of(p) = day)
    IN  Returned([i \in DOMAIN days |-> daily_period(days[i], grouped(days[i]), tz_name)])

aggregate_daily_from_periods(periods, tz_name) ==
    LET day_of(p) == local_day(p.start_time, tz_name)
        days == sorted({day_of(periods[i]) : i \in DOMAIN periods})
        grouped(day) == SelectSeq(periods, LAMBDA p : day_of(p) = day)
    IN  Returned([i \in DOMAIN days |-> daily_period(days[i], grouped(days[i]), tz_name)])

----------------------------------------------------------------------------
(* Inputs of the materializer.                                             *)

MaxDay == 2

(* Seconds into a day: midnight, the minutes around 12:00, the last second *)
(* of an hour and of the day, 07:30 and 08:00 UTC (23:30 and 00:00 in Los  *)
(* Angeles under standard time).                                           *)
DaySeconds ==
    {0, 300, 7 * HOUR + 1800, 8 * HOUR, 12 * HOUR, 12 * HOUR + 300,
     13 * HOUR - 1, 23 * HOUR + 3599}

Instants == {d * DAY + s : d \in 0..MaxDay, s \in DaySeconds}

(* UTC offsets carried by the datetimes handed in: UTC and +05:30. *)
DtOffsets == {0, 5 * HOUR + 1800}

Datetimes == {DT(t, off) : t \in Instants, off \in DtOffsets}

NumValues == <<0, 21>>

TextValues == <<"", "Clear">>

field_value(field_name, c) ==
    IF field_name \in TextFields THEN Some(TextValues[c]) ELSE Some(NumValues[c])

(* The metric fields of a record: those of present hold a value, the rest None. *)
MetricValues(fields, present, choice) ==
    [f \in fields |-> IF f \in present THEN field_value(f, choice[f]) ELSE None]

Location(latitude, longitude) == [latitude |-> latitude, longitude |-> longitude]

Observation(observed_at, values) ==
    [provider |-> "demo", station |-> Some("station-a"), location |-> Location(10, 20),
     observed_at |-> observed_at, values |-> values]

ForecastPeriod(issued_at, start_time, end_time, values) ==
    [provider |-> "demo", location |-> Location(10, 20), issued_at |-> issued_at,
     start_time |-> start_time, end_time |-> end_time, values |-> values]

SourceFieldMaps == {<<>>, [f \in {"temperature_c"} |-> "main.temp"]}

(* The product kinds of the program and one it does not know. *)
ProductKinds ==
    {PRODUCT_OBSERVATION, PRODUCT_FORECAST_HOURLY, PRODUCT_FORECAST_DAILY, "forecast_minute"}

QualityFlags == {None, Some("derived_daily_from_periods")}

Noon == DT(12 * HOUR, 0)

(* The populated fields of a record: every single registry field, and     *)
(* every choice of at most MaxPresent of the probe fields (the first and   *)
(* the last entry of each registry, numeric and text fields).              *)
ProbeFields ==
    {"temperature_c", "dewpoint_c", "wind_direction_deg", "uv_index", "relative_humidity",
     "condition", "pressure_tendency", "summary", "precipitation_mm", "temperature_high_c",
     "condition_code"}

PresentSets(fields) ==
    {{f} : f \in fields} \cup SubsetsUpTo(fields \cap ProbeFields, MaxPresent)

----------------------------------------------------------------------------
(* The state machine.  Init draws the arguments of one call; the action of *)
(* the called operation applies it and records the outcome.                *)

Pending == [status |-> "pending", value |-> <<>>]

(* observation_to_datapoints on every record with at most MaxPresent        *)
(* populated registry fields, and on a record with one populated field at   *)
(* every instant and time zone.                                             *)
ObservationCalls ==
    {[present |-> present, choices |-> [present -> 1..2], at |-> Noon,
      run_at |-> DT(12 * HOUR + 1800, 0), tz_name |-> "UTC", source_fields |-> <<>>] :
        present \in PresentSets(ObservationFields)}
    \cup
    {[present |-> {"temperature_c"}, choices |-> {[f \in {"temperature_c"} |-> 2]},
      at |-> at, run_at |-> DT(t, 0), tz_name |-> tz, source_fields |-> sf] :
        at \in Datetimes, t \in {12 * HOUR, 2 * DAY}, tz \in TzNames,
        sf \in SourceFieldMaps}

(* forecast_to_datapoints on every period with at most MaxPresent populated *)
(* registry fields, on a period with one populated field for every pair of  *)
(* run and start instants, time zone and product kind, with every          *)
(* source-field map and quality flag, and on every choice of probe fields  *)
(* for every product kind.                                                 *)
ForecastCalls ==
    {[present |-> present, choices |-> [present -> 1..2], run_at |-> DT(0, 0),
      start |-> DT(5 * HOUR, 0), tz_name |-> "UTC",
      product_kind |-> PRODUCT_FORECAST_DAILY, source_fields |-> <<>>,
      quality_flag |-> None] :
        present \in PresentSets(ForecastFields)}
    \cup
    {[present |-> {"temperature_c"}, choices |-> {[f \in {"temperature_c"} |-> 2]},
      run_at |-> DT(t, 0), start |-> start, tz_name |-> tz, product_kind |-> kind,
      source_fields |-> <<>>, quality_flag |-> None] :
        t \in Instants, start \in Datetimes, tz \in TzNames, kind \in ProductKinds}
    \cup
    {[present |-> {"summary"}, choices |-> {[f \in {"summary"} |-> 2]},
      run_at |-> Noon, start |-> Noon, tz_name |-> "UTC", product_kind |-> kind,
      source_fields |-> sf, quality_flag |-> qf] :
        kind \in ProductKinds, sf \in SourceFieldMaps, qf \in QualityFlags}
    \cup
    {[present |-> present, choices |-> {[f \in present |-> 1]},
      run_at |-> DT(0, 0), start |-> DT(5 * HOUR, 0), tz_name |-> "UTC", product_kind |-> kind,
      source_fields |-> <<>>, quality_flag |-> None] :
        present \in SubsetsUpTo(ForecastFields \cap ProbeFields, MaxPresent),
        kind \in ProductKinds \ {PRODUCT_FORECAST_DAILY}}

InitObservationToDatapoints ==
    \E c \in ObservationCalls :
       \E choice \in c.choices :
          call = [op |-> "observation_to_datapoints",
                  observation |->
                     Observation(c.at, MetricValues(ObservationFields, c.present, choice)),
                  run_at |-> c.run_at, tz_name |-> c.tz_name,
                  source_fields |-> c.source_fields]

InitForecastToDatapoints ==
    \E c \in ForecastCalls :
       \E choice \in c.choices :
          call = [op |-> "forecast_to_datapoints",
                  forecast |->
                     ForecastPeriod(c.run_at, c.start, DT(c.start.utc + HOUR, c.start.off),
                                    MetricValues(ForecastFields, c.present, choice)),
                  run_at |-> c.run_at, tz_name |-> c.tz_name,
                  product_kind |-> c.product_kind, source_fields |-> c.source_fields,
                  quality_flag |-> c.quality_flag]

Init ==
    /\ InitObservationToDatapoints \/ InitForecastToDatapoints
    /\ result = Pending
    /\ NoRequest

ObservationToDatapoints ==
    /\ call.op = "observation_to_datapoints"
    /\ result = Pending
    /\ result' = observation_to_datapoints(call.observation, call.run_at, call.tz_name,
                                           call.source_fields)
    /\ UNCHANGED <<call, attempt, sent, sleeps, pc, frame, database, invocations>>

ForecastToDatapoints ==
    /\ call.op = "forecast_to_datapoints"
    /\ result = Pending
    /\ result' = forecast_to_datapoints(call.forecast, call.run_at, call.tz_name,
                                        call.product_kind, call.source_fields,
                                        call.quality_flag)
    /\ UNCHANGED <<call, attempt, sent, sleeps, pc, frame, database, invocations>>

Next ==
    \/ ObservationToDatapoints
    \/ ForecastToDatapoints

Spec == Init /\ [][Next]_vars

----------------------------------------------------------------------------
(* Inputs of the daily aggregator.                                         *)

MaxPeriods == 3

MiddayOf(d) == DT(d * DAY + 12 * HOUR, 0)

(* Period starts of the grouping calls: midday of three days, 23:30 and    *)
(* 00:00 Los Angeles standard time, and Los Angeles midnight on the day    *)
(* after daylight saving time began.                                       *)
AggregateStarts ==
    {MiddayOf(0), DT(DAY + 7 * HOUR + 1800, 0), DT(DAY + 8 * HOUR, 0), MiddayOf(1),
     DT(2 * DAY + 7 * HOUR, 0), MiddayOf(2)}

TemperatureValues == <<10, 12, 14>>

HighValues == <<11, 15>>

LowValues == <<9, 13>>

(* c = 0 leaves the field absent, c > 0 picks the c-th value. *)
Pick(values, c) == IF c = 0 THEN None ELSE Some(values[c])

NoValues == [f \in ForecastFields |-> None]

(* Calls on periods that populate one field f with nothing, 0 or 21 (a     *)
(* text field: nothing, "" or "Clear").                                    *)
FieldPeriods(f, n, starts, choice) ==
    [i \in 1..n |->
        ForecastPeriod(DT(0, 0), starts[i], DT(starts[i].utc + HOUR, 0),
                       [NoValues EXCEPT ![f] =
                           IF choice[i] = 0 THEN None ELSE field_value(f, choice[i])])]

(* Calls on periods of one day that populate temperature_c and one of      *)
(* temperature_high_c / temperature_low_c.                                 *)
TemperaturePeriods(extreme, values, n, temps, extremes) ==
    [i \in 1..n |->
        ForecastPeriod(DT(0, 0), MiddayOf(0), DT(13 * HOUR, 0),
                       [NoValues EXCEPT !["temperature_c"] = Pick(TemperatureValues, temps[i]),
                                        ![extreme] = Pick(values, extremes[i])])]

(* Calls on periods with temperature_c = 10 and precipitation_mm = 1 that  *)
(* start at any of                                                         *)
(* AggregateStarts, issued at the epoch or at the earliest start.          *)
GroupingPeriods(n, starts, issued_first) ==
    LET earliest == CHOOSE s \in Range(starts) : \A o \in Range(starts) : s.utc <= o.utc
    IN  [i \in 1..n |->
            ForecastPeriod(IF issued_first THEN earliest ELSE DT(0, 0), starts[i],
                           DT(starts[i].utc + HOUR, 0),
                           [NoValues EXCEPT !["temperature_c"] = Some(10),
                                            !["precipitation_mm"] = Some(1)])]

AggregateCall(periods, tz_name) ==
    [op |-> "aggregate_daily_from_periods", periods |-> periods, tz_name |-> tz_name]

(* The fields whose periods are also spread over two days: one per reducer *)
(* of mean, sum and first-reported.                                        *)
TwoDayFields == {"temperature_c", "precipitation_mm", "wind_direction_deg"}

InitAggregateFields ==
    \E f \in ForecastFields, n \in 1..MaxPeriods :
       \E starts \in [1..n -> IF f \in TwoDayFields THEN {MiddayOf(0), MiddayOf(1)}
                                                   ELSE {MiddayOf(0)}],
          choice \in [1..n -> 0..2] :
          call = AggregateCall(FieldPeriods(f, n, starts, choice), "UTC")

InitAggregateTemperatures ==
    \E n \in 1..MaxPeriods, x \in {<<"temperature_high_c", HighValues>>,
                                  <<"temperature_low_c", LowValues>>} :
       \E temps \in [1..n -> 0..3], extremes \in [1..n -> 0..2] :
          call = AggregateCall(TemperaturePeriods(x[1], x[2], n, temps, extremes), "UTC")

InitAggregateGrouping ==
    \/ \E tz \in TzNames : call = AggregateCall(<<>>, tz)
    \/ \E n \in 1..MaxPeriods, tz \in TzNames, issued_first \in BOOLEAN :
          \E starts \in [1..n -> AggregateStarts] :
             call = AggregateCall(GroupingPeriods(n, starts, issued_first), tz)

InitAggregate ==
    /\ InitAggregateFields \/ InitAggregateTemperatures \/ InitAggregateGrouping
    /\ result = Pending
    /\ NoRequest

AggregateDailyFromPeriods ==
    /\ call.op = "aggregate_daily_from_periods"
    /\ result = Pending
    /\ result' = aggregate_daily_from_periods(call.periods, call.tz_name)
    /\ UNCHANGED <<call, attempt, sent, sleeps, pc, frame, database, invocations>>

NextAggregate == AggregateDailyFromPeriods

SpecAggregate == InitAggregate /\ [][NextAggregate]_vars

----------------------------------------------------------------------------
(* domain/mappers: the resolution of coordinates and timestamps and the    *)
(* bounds of forecast periods.  A payload is reduced to the fields these   *)
(* read: a coordinate field is "absent" (no such key), "null" (JSON null   *)
(* or a None argument) or "value"; a timestamp field is None (absent, null *)
(* or an empty string) or Some(t), t in seconds since the epoch.           *)

MINUTE == 60

(* float(x) of a coordinate: TypeError for None, else the number. *)
float(coordinate, number) ==
    IF coordinate = "value" THEN Returned(number) ELSE Raised("TypeError")

(* Location(latitude=float(lat), longitude=float(lon)) *)
located(lat, lon) ==
    IF float(lat, 10).status # "ok" \/ float(lon, 20).status # "ok"
    THEN Raised("TypeError")
    ELSE Returned(Location(10, 20))

(* ForecastPeriod(provider=..., location=Location(float(..), float(..)),   *)
(* issued_at=..., start_time=..., end_time=...) of the loop body of a      *)
(* forecast mapper.                                                        *)
period_at(provider, lat, lon, issued_at, start_time, end_time) ==
    IF located(lat, lon).status # "ok" THEN located(lat, lon)
    ELSE Returned([provider |-> provider, location |-> located(lat, lon).value,
                   issued_at |-> issued_at, start_time |-> start_time,
                   end_time |-> end_time])

(* Observation(provider=..., location=Location(...), observed_at=...) *)
observation_at(provider, lat, lon, observed_at) ==
    IF located(lat, lon).status # "ok" THEN located(lat, lon)
    ELSE Returned([provider |-> provider, location |-> located(lat, lon).value,
                   observed_at |-> observed_at])

Skipped == [status |-> "continue", value |-> <<>>]

(* A loop that appends one record per element, skips on continue and ends  *)
(* the call at the first element that raises.                              *)
normalized(outcomes) ==
    LET failed == {i \in DOMAIN outcomes : outcomes[i].status \notin {"ok", "continue"}}
        kept == SelectSeq(outcomes, LAMBDA o : o.status = "ok")
    IN  IF failed # {}
        THEN outcomes[CHOOSE i \in failed : \A j \in failed : i <= j]
        ELSE Returned([i \in DOMAIN kept |-> kept[i].value])

(* domain/mappers/msc_geomet.py *)

(* coordinates is the list under geometry.coordinates (longitude first),   *)
(* observed the first present of observationTime/time/timestamp/datetime.  *)
map_msc_geomet_observation(coordinates, observed) ==
    IF Len(coordinates) < 2 THEN Raised("ValueError")
    ELSE IF observed = None THEN Raised("ValueError")
    ELSE observation_at("msc_geomet", coordinates[2], coordinates[1], DT(Get(observed), 0))

(* The period of the loop body for the element at a 0-based index: a       *)
(* period is "junk" (not a mapping) or a record of its optional start and  *)
(* end.                                                                    *)
msc_geomet_period(coordinates, forecast_group, issued_at, index, period) ==
    IF period.junk THEN Skipped
    ELSE LET start_raw == period.start
             end_raw == IF period.end # None THEN period.end ELSE start_raw
         IN  IF start_raw = None /\ ~forecast_group THEN Raised("ValueError")
             ELSE LET start_time == IF start_raw # None THEN DT(Get(start_raw), 0)
                                    ELSE DT(issued_at.utc + index * 12 * HOUR, 0)
                  IN  IF end_raw = None /\ ~forecast_group THEN Raised("ValueError")
                      ELSE period_at("msc_geomet", coordinates[2], coordinates[1], issued_at,
                                     start_time,
                                     IF end_raw # None THEN DT(Get(end_raw), 0)
                                     ELSE DT(start_time.utc + 12 * HOUR, 0))

(* forecast_group: properties.forecastGroup is a non-empty mapping; issued *)
(* is the first present issue-time key of the forecast group (of the       *)
(* properties without one); periods is the list the code iterates.         *)
map_msc_geomet_forecast(coordinates, forecast_group, issued, periods) ==
    IF Len(coordinates) < 2 THEN Raised("ValueError")
    ELSE IF issued = None THEN Raised("ValueError")
    ELSE normalized([i \in DOMAIN periods |->
                        msc_geomet_period(coordinates, forecast_group, DT(Get(issued), 0),
                                          i - 1, periods[i])])

(* domain/mappers/tomorrow_io.py *)

map_tomorrow_io_observation(lat, lon, time) ==
    IF lat = "absent" \/ lon = "absent" THEN Raised("ValueError")
    ELSE IF time = None THEN Raised("ValueError")
    ELSE observation_at("tomorrow_io", lat, lon, DT(Get(time), 0))

(* A timestep such as "1h" is the amount _to_optional_float reads before   *)
(* its last character (None when that is not a number) and that character. *)
Timestep(amount, unit) == Some([amount |-> Some(amount), unit |-> unit])

infer_end_time_ignoring_next(index, intervals, start_time, timestep) ==
    DT(start_time.utc + Get(Get(timestep).amount) * HOUR, 0)

(* _infer_end_time with a 1-based index into the optional times of the     *)
(* intervals.                                                              *)
infer_end_time(index, intervals, start_time, timestep) ==
    LET stepped(unit) ==
           /\ timestep # None
           /\ Get(timestep).unit = unit
           /\ Get(timestep).amount \notin {None, Some(0)}
        amount == Get(Get(timestep).amount)
    IN  IF index + 1 <= Len(intervals) /\ intervals[index + 1] # None
        THEN DT(Get(intervals[index + 1]), 0)
        ELSE IF stepped("h") THEN DT(start_time.utc + amount * HOUR, 0)
        ELSE IF stepped("m") THEN DT(start_time.utc + amount * MINUTE, 0)
        ELSE IF stepped("d") THEN DT(start_time.utc + amount * DAY, 0)
        ELSE start_time

(* The body shared by map_tomorrow_io_forecast ("1h") and                  *)
(* map_tomorrow_io_daily_forecast ("1d"): intervals holds the optional     *)
(* time of every interval of the timeline.                                 *)
tomorrow_io_periods(lat, lon, intervals, timestep) ==
    IF lat = "absent" \/ lon = "absent" THEN Raised("ValueError")
    ELSE IF intervals = <<>> THEN Returned(<<>>)
    ELSE IF intervals[1] = None THEN Raised("ValueError")
    ELSE normalized([i \in DOMAIN intervals |->
            IF intervals[i] = None THEN Raised("ValueError")
            ELSE period_at("tomorrow_io", lat, lon, DT(Get(intervals[1]), 0),
                           DT(Get(intervals[i]), 0),
                           infer_end_time(i, intervals, DT(Get(intervals[i]), 0), timestep))])

INTENSITY_KEYS == <<"rainIntensity", "snowIntensity", "sleetIntensity", "freezingRainIntensity">>

(* _sum_intensities: the total of the intensities that are reported. *)
sum_intensities(values) ==
    LET found == SelectSeq(INTENSITY_KEYS, LAMBDA key : values[key] # None)
    IN  IF found = <<>> THEN None
        ELSE Some(SeqSum([i \in DOMAIN found |-> Get(values[found[i]])]))

(* precipitation_mm of the hourly loop body, a rational: the intensity,    *)
(* multiplied by the hours of the period unless the period is empty.       *)
precipitation_mm(values, start_time, end_time) ==
    LET precip_intensity == sum_intensities(values)
    IN  IF precip_intensity # None /\ end_time # start_time
        THEN Some(Q(Get(precip_intensity) * (end_time.utc - start_time.utc), HOUR))
        ELSE IF precip_intensity # None THEN Some(Q(Get(precip_intensity), 1))
        ELSE None

(* values holds the intensities of every interval. *)
map_tomorrow_io_forecast(lat, lon, intervals, values) ==
    LET periods == tomorrow_io_periods(lat, lon, intervals, Timestep(1, "h"))
    IN  IF periods.status # "ok" THEN periods
        ELSE Returned([i \in DOMAIN periods.value |->
                periods.value[i] @@
                [precipitation_mm |->
                    precipitation_mm(values[i], periods.value[i].start_time,
                                     periods.value[i].end_time)]])

map_tomorrow_io_daily_forecast(lat, lon, intervals) ==
    tomorrow_io_periods(lat, lon, intervals, Timestep(1, "d"))

(* domain/mappers/openweather.py *)

map_openweather_observation(lat, lon, dt) ==
    IF lat = "absent" \/ lon = "absent" THEN Raised("ValueError")
    ELSE IF dt = None THEN Raised("ValueError")
    ELSE observation_at("openweather", lat, lon, DT(Get(dt), 0))

(* The loop of the three forecast mappers: issued_at is the dt of the      *)
(* first entry, every period lasts step seconds.                           *)
openweather_periods(lat, lon, entries, step) ==
    IF entries = <<>> THEN Returned(<<>>)
    ELSE IF entries[1] = None THEN Raised("ValueError")
    ELSE normalized([i \in DOMAIN entries |->
            IF entries[i] = None THEN Raised("ValueError")
            ELSE period_at("openweather", lat, lon, DT(Get(entries[1]), 0),
                           DT(Get(entries[i]), 0), DT(Get(entries[i]) + step, 0))])

map_openweather_forecast(lat, lon, entries) ==
    IF lat = "absent" \/ lon = "absent" THEN Raised("ValueError")
    ELSE openweather_periods(lat, lon, entries, 3 * HOUR)

map_openweather_onecall_hourly(lat, lon, entries) ==
    IF lat \in {"absent", "null"} \/ lon \in {"absent", "null"} THEN Raised("ValueError")
    ELSE openweather_periods(lat, lon, entries, HOUR)

map_openweather_onecall_daily(lat, lon, entries) ==
    IF lat \in {"absent", "null"} \/ lon \in {"absent", "null"} THEN Raised("ValueError")
    ELSE openweather_periods(lat, lon, entries, DAY)

(* domain/mappers/accuweather.py: latitude and longitude are arguments of  *)
(* the caller, "null" when None is passed.                                 *)

(* _interval_bounds: <<start_time, end_time>> of a minute interval. *)
interval_bounds(interval, issued_at) ==
    IF interval.StartMinute = None THEN Raised("ValueError")
    ELSE LET start_time == DT(issued_at.utc + Get(interval.StartMinute) * MINUTE, 0)
             count_minute == interval.CountMinute
             end_minute == interval.EndMinute
         IN  Returned(<<start_time,
                        IF count_minute # None /\ Get(count_minute) # 0 /\ Get(count_minute) > 0
                        THEN DT(start_time.utc + Get(count_minute) * MINUTE, 0)
                        ELSE IF end_minute # None
                        THEN DT(issued_at.utc + (Get(end_minute) + 1) * MINUTE, 0)
                        ELSE DT(start_time.utc + MINUTE, 0)>>)

(* issued_at is the argument of the caller; summaries the Summaries list. *)
map_accuweather_minute_forecast(latitude, longitude, issued_at, summaries) ==
    IF latitude = "null" \/ longitude = "null" THEN Raised("ValueError")
    ELSE IF summaries = <<>> THEN Raised("ValueError")
    ELSE IF located(latitude, longitude).status # "ok" THEN located(latitude, longitude)
    ELSE normalized([i \in DOMAIN summaries |->
            LET bounds == interval_bounds(summaries[i], issued_at)
            IN  IF bounds.status # "ok" THEN bounds
                ELSE period_at("accuweather", latitude, longitude, issued_at,
                               bounds.value[1], bounds.value[2])])

(* payload holds the optional time (EpochTime or LocalObservationDateTime) *)
(* of each element of the current-conditions list.                         *)
map_accuweather_observation(latitude, longitude, payload) ==
    IF latitude = "null" \/ longitude = "null" THEN Raised("ValueError")
    ELSE IF payload = <<>> THEN Raised("ValueError")
    ELSE IF payload[1] = None THEN Raised("ValueError")
    ELSE observation_at("accuweather", latitude, longitude, DT(Get(payload[1]), 0))

(* The loop of the hourly and daily forecast mappers over the optional     *)
(* time of each entry.                                                     *)
accuweather_periods(latitude, longitude, entries, step) ==
    IF latitude = "null" \/ longitude = "null" THEN Raised("ValueError")
    ELSE IF entries = <<>> THEN Raised("ValueError")
    ELSE IF entries[1] = None THEN Raised("ValueError")
    ELSE normalized([i \in DOMAIN entries |->
            IF entries[i] = None THEN Raised("ValueError")
            ELSE period_at("accuweather", latitude, longitude, DT(Get(entries[1]), 0),
                           DT(Get(entries[i]), 0), DT(Get(entries[i]) + step, 0))])

map_accuweather_hourly_forecast(latitude, longitude, payload) ==
    accuweather_periods(latitude, longitude, payload, HOUR)

map_accuweather_daily_forecast(latitude, longitude, daily) ==
    accuweather_periods(latitude, longitude, daily, DAY)

(* domain/mappers/ambient_weather.py *)

(* _extract_coords of info.coords = {"lat": .., "lon": ..}: a field that   *)
(* is absent, null or 0 falls through the `or` to the (absent) long name.  *)
extract_coords(lat, lon) ==
    IF lat \in {"absent", "null", "zero"} \/ lon \in {"absent", "null", "zero"}
    THEN Raised("ValueError")
    ELSE Returned(Location(10, 20))

(* The macAddress values of the payloads, in the order of Python's str     *)
(* comparison; a device without macAddress sorts under the key "".         *)
MacOrder == <<"", "00:AA", "00:aa", "00:bb", "00:cc">>

(* str(device.get("macAddress") or "") *)
mac_key(device) == IF device.macAddress = None THEN "" ELSE Get(device.macAddress)

MacRank(key) == CHOOSE i \in DOMAIN MacOrder : MacOrder[i] = key

(* str.lower *)
lower(key) ==
    CASE key = "00:AA" -> "00:aa"
      [] key = "Authorization" -> "authorization"
      [] key = "X-API-Key" -> "x-api-key"
      [] OTHER -> key

select_device_unsorted(devices, preferred_mac) ==
    IF devices = <<>> THEN Raised("ValueError") ELSE Returned(devices[1])

(* _select_device: the first device whose macAddress matches preferred_mac *)
(* whatever the case, else the head of the stable sort by mac_key, the     *)
(* earliest device of the payload among those of the least key.            *)
select_device(devices, preferred_mac) ==
    IF devices = <<>> THEN Raised("ValueError")
    ELSE IF preferred_mac # None /\ Get(preferred_mac) # ""
    THEN LET matches == {i \in DOMAIN devices :
                            lower(mac_key(devices[i])) = lower(Get(preferred_mac))}
         IN  IF matches = {} THEN Raised("ValueError")
             ELSE Returned(devices[CHOOSE i \in matches : \A j \in matches : i <= j])
    ELSE LET least == {i \in DOMAIN devices : \A j \in DOMAIN devices :
                          MacRank(mac_key(devices[i])) <= MacRank(mac_key(devices[j]))}
         IN  Returned(devices[CHOOSE i \in least : \A j \in least : i <= j])

(* payload: the devices, each with an optional macAddress, last_data (it   *)
(* has a non-empty lastData), the lat and lon of info.coords and the       *)
(* optional dateutc of lastData; info carries no name, so that the station *)
(* is the macAddress.                                                      *)
map_ambient_weather_observation(payload, device_mac) ==
    LET selected == select_device(payload, device_mac)
        device == selected.value
    IN  IF selected.status # "ok" THEN selected
        ELSE IF ~device.last_data THEN Raised("ValueError")
        ELSE IF extract_coords(device.lat, device.lon).status # "ok"
        THEN extract_coords(device.lat, device.lon)
        ELSE IF device.dateutc = None THEN Raised("ValueError")
        ELSE Returned([provider |-> "ambient_weather", station |-> device.macAddress,
                       location |-> extract_coords(device.lat, device.lon).value,
                       observed_at |-> DT(Get(device.dateutc), 0)])
----------------------------------------------------------------------------
(* Inputs of the provider mappers.                                         *)

MaxIntervals == 2

MaxDevices == 2

SeqsUpTo(S, n) == UNION {[1..k -> S] : k \in 0..n}

OptionalTimes == {None, Some(0), Some(HOUR), Some(2 * HOUR)}

EmbeddedCoordinates == {"absent", "null", "value"}

SuppliedCoordinates == {"null", "value"}

DeviceCoordinates == {"absent", "null", "zero", "value"}

(* geometry.coordinates: absent or empty, one element, or two. *)
CoordinateLists == SeqsUpTo({"null", "value"}, 2)

(* The elements of a periods list: something that is not a mapping, or a   *)
(* mapping with an optional start and an optional end.                     *)
MscPeriods ==
    {[junk |-> TRUE, start |-> None, end |-> None]}
    \cup {[junk |-> FALSE, start |-> s, end |-> e] :
             s \in {None, Some(HOUR), Some(2 * HOUR)},
             e \in {None, Some(2 * HOUR), Some(3 * HOUR)}}

MinuteIntervals ==
    {[StartMinute |-> s, EndMinute |-> e, CountMinute |-> c] :
        s \in {None, Some(0), Some(5)}, e \in {None, Some(4)},
        c \in {None, Some(0), Some(5)}}

InitMapMscGeometObservation ==
    \E coordinates \in CoordinateLists, observed \in OptionalTimes :
       call = [op |-> "map_msc_geomet_observation", coordinates |-> coordinates,
             observed |-> observed]

InitMapMscGeometForecast ==
    \E coordinates \in CoordinateLists, forecast_group \in BOOLEAN, issued \in
          {None, Some(HOUR)}, periods \in SeqsUpTo(MscPeriods, MaxIntervals) :
       call = [op |-> "map_msc_geomet_forecast", coordinates |-> coordinates,
             forecast_group |-> forecast_group, issued |-> issued, periods |-> periods]

InitMapTomorrowIoObservation ==
    \E lat \in EmbeddedCoordinates, lon \in EmbeddedCoordinates, time \in OptionalTimes :
       call = [op |-> "map_tomorrow_io_observation", lat |-> lat, lon |-> lon, time
             |-> time]

(* The intensities of an interval: none, a zero, one, or two to add up. *)
Intensities ==
    LET none == [key \in Range(INTENSITY_KEYS) |-> None]
    IN  {none, [none EXCEPT !["rainIntensity"] = Some(0)],
         [none EXCEPT !["snowIntensity"] = Some(2)],
         [none EXCEPT !["rainIntensity"] = Some(1), !["freezingRainIntensity"] = Some(3)]}

InitMapTomorrowIoForecast ==
    \E lat \in EmbeddedCoordinates, lon \in EmbeddedCoordinates, intervals \in
          SeqsUpTo(OptionalTimes, MaxIntervals) :
       \E values \in [DOMAIN intervals -> Intensities] :
          call = [op |-> "map_tomorrow_io_forecast", lat |-> lat, lon |-> lon,
                intervals |-> intervals, values |-> values]

InitMapTomorrowIoDailyForecast ==
    \E lat \in EmbeddedCoordinates, lon \in EmbeddedCoordinates, intervals \in
          SeqsUpTo(OptionalTimes, MaxIntervals) :
       call = [op |-> "map_tomorrow_io_daily_forecast", lat |-> lat, lon |-> lon,
             intervals |-> intervals]

InitMapOpenweatherObservation ==
    \E lat \in EmbeddedCoordinates, lon \in EmbeddedCoordinates, dt \in OptionalTimes :
       call = [op |-> "map_openweather_observation", lat |-> lat, lon |-> lon, dt |-> dt]

InitMapOpenweatherForecast ==
    \E lat \in EmbeddedCoordinates, lon \in EmbeddedCoordinates, entries \in
          SeqsUpTo(OptionalTimes, MaxIntervals) :
       call = [op |-> "map_openweather_forecast", lat |-> lat, lon |-> lon, entries
             |-> entries]

InitMapOpenweatherOnecallHourly ==
    \E lat \in EmbeddedCoordinates, lon \in EmbeddedCoordinates, entries \in
          SeqsUpTo(OptionalTimes, MaxIntervals) :
       call = [op |-> "map_openweather_onecall_hourly", lat |-> lat, lon |-> lon,
             entries |-> entries]

InitMapOpenweatherOnecallDaily ==
    \E lat \in EmbeddedCoordinates, lon \in EmbeddedCoordinates, entries \in
          SeqsUpTo(OptionalTimes, MaxIntervals) :
       call = [op |-> "map_openweather_onecall_daily", lat |-> lat, lon |-> lon,
             entries |-> entries]

InitMapAccuweatherMinuteForecast ==
    \E latitude \in SuppliedCoordinates, longitude \in SuppliedCoordinates,
          issued_at \in {DT(HOUR, 0)}, summaries \in SeqsUpTo(MinuteIntervals,
          MaxIntervals) :
       call = [op |-> "map_accuweather_minute_forecast", latitude |-> latitude,
             longitude |-> longitude, issued_at |-> issued_at, summaries |-> summaries]

InitMapAccuweatherObservation ==
    \E latitude \in SuppliedCoordinates, longitude \in SuppliedCoordinates, payload
          \in SeqsUpTo(OptionalTimes, 1) :
       call = [op |-> "map_accuweather_observation", latitude |-> latitude,
             longitude |-> longitude, payload |-> payload]

InitMapAccuweatherHourlyForecast ==
    \E latitude \in SuppliedCoordinates, longitude \in SuppliedCoordinates, payload
          \in SeqsUpTo(OptionalTimes, MaxIntervals) :
       call = [op |-> "map_accuweather_hourly_forecast", latitude |-> latitude,
             longitude |-> longitude, payload |-> payload]

InitMapAccuweatherDailyForecast ==
    \E latitude \in SuppliedCoordinates, longitude \in SuppliedCoordinates, daily
          \in SeqsUpTo(OptionalTimes, MaxIntervals) :
       call = [op |-> "map_accuweather_daily_forecast", latitude |-> latitude,
             longitude |-> longitude, daily |-> daily]

(* One device of any shape without macAddress. *)
LoneDevices ==
    {[macAddress |-> None, last_data |-> last_data, lat |-> lat, lon |-> lon,
      dateutc |-> dateutc] :
        last_data \in BOOLEAN, lat \in DeviceCoordinates, lon \in DeviceCoordinates,
        dateutc \in OptionalTimes}

(* Devices with coordinates and a timestamp, told apart by macAddress and  *)
(* by their observation time.                                              *)
ListedDevices ==
    {[macAddress |-> mac, last_data |-> last_data, lat |-> "value", lon |-> "value",
      dateutc |-> dateutc] :
        mac \in {None, Some("00:AA"), Some("00:aa"), Some("00:bb")},
        last_data \in BOOLEAN, dateutc \in {Some(0), Some(HOUR)}}

InitMapAmbientWeatherObservation ==
    \/ \E payload \in SeqsUpTo(LoneDevices, 1) :
          call = [op |-> "map_ambient_weather_observation", payload |-> payload,
                device_mac |-> None]
    \/ \E payload \in SeqsUpTo(ListedDevices, MaxDevices), device_mac \in
             {None, Some("00:aa"), Some("00:cc")} :
          call = [op |-> "map_ambient_weather_observation", payload |-> payload,
                device_mac |-> device_mac]

InitMappers ==
    /\ InitMapMscGeometObservation
       \/ InitMapMscGeometForecast
       \/ InitMapTomorrowIoObservation
       \/ InitMapTomorrowIoForecast
       \/ InitMapTomorrowIoDailyForecast
       \/ InitMapOpenweatherObservation
       \/ InitMapOpenweatherForecast
       \/ InitMapOpenweatherOnecallHourly
       \/ InitMapOpenweatherOnecallDaily
       \/ InitMapAccuweatherMinuteForecast
       \/ InitMapAccuweatherObservation
       \/ InitMapAccuweatherHourlyForecast
       \/ InitMapAccuweatherDailyForecast
       \/ InitMapAmbientWeatherObservation
    /\ result = Pending
    /\ NoRequest

MapMscGeometObservation ==
    /\ call.op = "map_msc_geomet_observation"
    /\ result = Pending
    /\ result' = map_msc_geomet_observation(call.coordinates, call.observed)
    /\ UNCHANGED <<call, attempt, sent, sleeps, pc, frame, database, invocations>>

MapMscGeometForecast ==
    /\ call.op = "map_msc_geomet_forecast"
    /\ result = Pending
    /\ result' = map_msc_geomet_forecast(call.coordinates, call.forecast_group,
          call.issued, call.periods)
    /\ UNCHANGED <<call, attempt, sent, sleeps, pc, frame, database, invocations>>

MapTomorrowIoObservation ==
    /\ call.op = "map_tomorrow_io_observation"
    /\ result = Pending
    /\ result' = map_tomorrow_io_observation(call.lat, call.lon, call.time)
    /\ UNCHANGED <<call, attempt, sent, sleeps, pc, frame, database, invocations>>

MapTomorrowIoForecast ==
    /\ call.op = "map_tomorrow_io_forecast"
    /\ result = Pending
    /\ result' = map_tomorrow_io_forecast(call.lat, call.lon, call.intervals,
          call.values)
    /\ UNCHANGED <<call, attempt, sent, sleeps, pc, frame, database, invocations>>

MapTomorrowIoDailyForecast ==
    /\ call.op = "map_tomorrow_io_daily_forecast"
    /\ result = Pending
    /\ result' = map_tomorrow_io_daily_forecast(call.lat, call.lon, call.intervals)
    /\ UNCHANGED <<call, attempt, sent, sleeps, pc, frame, database, invocations>>

MapOpenweatherObservation ==
    /\ call.op = "map_openweather_observation"
    /\ result = Pending
    /\ result' = map_openweather_observation(call.lat, call.lon, call.dt)
    /\ UNCHANGED <<call, attempt, sent, sleeps, pc, frame, database, invocations>>

MapOpenweatherForecast ==
    /\ call.op = "map_openweather_forecast"
    /\ result = Pending
    /\ result' = map_openweather_forecast(call.lat, call.lon, call.entries)
    /\ UNCHANGED <<call, attempt, sent, sleeps, pc, frame, database, invocations>>

MapOpenweatherOnecallHourly ==
    /\ call.op = "map_openweather_onecall_hourly"
    /\ result = Pending
    /\ result' = map_openweather_onecall_hourly(call.lat, call.lon, call.entries)
    /\ UNCHANGED <<call, attempt, sent, sleeps, pc, frame, database, invocations>>

MapOpenweatherOnecallDaily ==
    /\ call.op = "map_openweather_onecall_daily"
    /\ result = Pending
    /\ result' = map_openweather_onecall_daily(call.lat, call.lon, call.entries)
    /\ UNCHANGED <<call, attempt, sent, sleeps, pc, frame, database, invocations>>

MapAccuweatherMinuteForecast ==
    /\ call.op = "map_accuweather_minute_forecast"
    /\ result = Pending
    /\ result' = map_accuweather_minute_forecast(call.latitude, call.longitude,
          call.issued_at, call.summaries)
    /\ UNCHANGED <<call, attempt, sent, sleeps, pc, frame, database, invocations>>

MapAccuweatherObservation ==
    /\ call.op = "map_accuweather_observation"
    /\ result = Pending
    /\ result' = map_accuweather_observation(call.latitude, call.longitude, call.payload)
    /\ UNCHANGED <<call, attempt, sent, sleeps, pc, frame, database, invocations>>

MapAccuweatherHourlyForecast ==
    /\ call.op = "map_accuweather_hourly_forecast"
    /\ result = Pending
    /\ result' = map_accuweather_hourly_forecast(call.latitude, call.longitude,
          call.payload)
    /\ UNCHANGED <<call, attempt, sent, sleeps, pc, frame, database, invocations>>

MapAccuweatherDailyForecast ==
    /\ call.op = "map_accuweather_daily_forecast"
    /\ result = Pending
    /\ result' = map_accuweather_daily_forecast(call.latitude, call.longitude, call.daily)
    /\ UNCHANGED <<call, attempt, sent, sleeps, pc, frame, database, invocations>>

MapAmbientWeatherObservation ==
    /\ call.op = "map_ambient_weather_observation"
    /\ result = Pending
    /\ result' = map_ambient_weather_observation(call.payload, call.device_mac)
    /\ UNCHANGED <<call, attempt, sent, sleeps, pc, frame, database, invocations>>

NextMappers ==
    \/ MapMscGeometObservation
    \/ MapMscGeometForecast
    \/ MapTomorrowIoObservation
    \/ MapTomorrowIoForecast
    \/ MapTomorrowIoDailyForecast
    \/ MapOpenweatherObservation
    \/ MapOpenweatherForecast
    \/ MapOpenweatherOnecallHourly
    \/ MapOpenweatherOnecallDaily
    \/ MapAccuweatherMinuteForecast
    \/ MapAccuweatherObservation
    \/ MapAccuweatherHourlyForecast
    \/ MapAccuweatherDailyForecast
    \/ MapAmbientWeatherObservation

SpecMappers == InitMappers /\ [][NextMappers]_vars

(* Every producer of ForecastPeriod records: the forecast mappers and the *)
(* daily aggregator.                                                       *)
InitPeriods ==
    \/ InitAggregate
    \/ InitMappers

NextPeriods ==
    \/ NextAggregate
    \/ NextMappers

SpecPeriods == InitPeriods /\ [][NextPeriods]_vars

----------------------------------------------------------------------------
(* config.py                                                               *)

(* The strings of the environment are sequences of characters, of which    *)
(* the whitespace characters are told apart; every other character run is  *)
(* one element.                                                            *)
Whitespace == {" ", "\n"}

RECURSIVE lstrip(_)
lstrip(s) == IF s # <<>> /\ Head(s) \in Whitespace THEN lstrip(Tail(s)) ELSE s

RECURSIVE rstrip(_)
rstrip(s) ==
    IF s # <<>> /\ s[Len(s)] \in Whitespace THEN rstrip(SubSeq(s, 1, Len(s) - 1)) ELSE s

(* str.strip *)
strip(s) == rstrip(lstrip(s))

REQUIRED_KEYS == {"WX_LAT", "WX_LON", "WX_TZ"}

(* float(raw_value) reads one number between optional whitespace. *)
Numbers == [n45 |-> 45, n200 |-> 200, m75 |-> 0 - 75]

float_of(raw_value) ==
    IF Len(strip(raw_value)) = 1 /\ strip(raw_value)[1] \in DOMAIN Numbers
    THEN Returned(Numbers[strip(raw_value)[1]])
    ELSE Raised("ValueError")

(* ZoneInfo(key) finds a zone only under its exact name. *)
ZoneNames == {"UTC", "Asia/Kolkata", "America/Los_Angeles"}

ZoneInfo(key) ==
    IF Len(key) = 1 /\ key[1] \in ZoneNames THEN Returned(key) ELSE Raised("ZoneInfoNotFoundError")

(* env.get(key) *)
env_get(env, key) == IF key \in DOMAIN env THEN Some(env[key]) ELSE None

(* _parse_coordinate *)
parse_coordinate(key, env, min_value, max_value) ==
    LET raw_value == env_get(env, key)
    IN  IF raw_value = None \/ strip(Get(raw_value)) = <<>> THEN Raised("ConfigError")
        ELSE IF float_of(Get(raw_value)).status # "ok" THEN Raised("ConfigError")
        ELSE IF ~(min_value <= float_of(Get(raw_value)).value
                    /\ float_of(Get(raw_value)).value <= max_value)
        THEN Raised("ConfigError")
        ELSE float_of(Get(raw_value))

(* _parse_timezone: the raw value is looked up and returned as it is. *)
parse_timezone(env) ==
    LET raw_value == env_get(env, "WX_TZ")
    IN  IF raw_value = None \/ strip(Get(raw_value)) = <<>> THEN Raised("ConfigError")
        ELSE IF ZoneInfo(Get(raw_value)).status # "ok" THEN Raised("ConfigError")
        ELSE Returned(Get(raw_value))

(* key.startswith("WX_") *)
WxKeys == {"WX_LAT", "WX_LON", "WX_TZ", "WX_PROVIDER_ALPHA_KEY", "WX_PROVIDER_BETA_KEY"}

(* _collect_provider_keys: every other WX_ key whose value is not the      *)
(* empty string, with that value.                                          *)
collect_provider_keys(env) ==
    LET kept == {key \in DOMAIN env :
                    key \notin REQUIRED_KEYS /\ key \in WxKeys /\ env[key] # <<>>}
    IN  [key \in kept |-> env[key]]

load_config(env) ==
    LET latitude == parse_coordinate("WX_LAT", env, 0 - 90, 90)
        longitude == parse_coordinate("WX_LON", env, 0 - 180, 180)
        timezone == parse_timezone(env)
    IN  IF latitude.status # "ok" THEN latitude
        ELSE IF longitude.status # "ok" THEN longitude
        ELSE IF timezone.status # "ok" THEN timezone
        ELSE Returned([latitude |-> latitude.value, longitude |-> longitude.value,
                       timezone |-> timezone.value,
                       provider_keys |-> collect_provider_keys(env)])

(* Environments. *)

MaxPadding == 1

Paddings == SeqsUpTo(Whitespace, MaxPadding)

Padded(word) == {lead \o <<word>> \o trail : lead \in Paddings, trail \in Paddings}

Latitudes == {None, Some(<<>>), Some(<<"n45">>), Some(<<" ", "n45", "\n">>), Some(<<"n200">>),
              Some(<<"north">>)}

Longitudes == {Some(<<"m75">>), Some(<<" ", "m75", " ">>)}

Timezones ==
    {None, Some(<<"Mars/Nowhere">>)} \cup {Some(s) : s \in Paddings \cup Padded("UTC")}

AlphaKeys == {None} \cup {Some(s) : s \in Paddings \cup Padded("abc123")}

BetaKeys == {None, Some(<<"def456">>)}

(* The mapping with the keys that are set. *)
Environment(settings) ==
    [key \in {k \in DOMAIN settings : settings[k] # None} |-> Get(settings[key])]

InitConfig ==
    /\ \E lat \in Latitudes, lon \in Longitudes, tz \in Timezones, alpha \in AlphaKeys,
          beta \in BetaKeys :
          call = [op |-> "load_config",
                  env |-> Environment([WX_LAT |-> lat, WX_LON |-> lon, WX_TZ |-> tz,
                                       WX_PROVIDER_ALPHA_KEY |-> alpha,
                                       WX_PROVIDER_BETA_KEY |-> beta,
                                       PATH |-> Some(<<"/usr/bin">>)])]
    /\ result = Pending
    /\ NoRequest

LoadConfig ==
    /\ call.op = "load_config"
    /\ result = Pending
    /\ result' = load_config(call.env)
    /\ UNCHANGED <<call, attempt, sent, sleeps, pc, frame, database, invocations>>

NextConfig == LoadConfig

SpecConfig == InitConfig /\ [][NextConfig]_vars
----------------------------------------------------------------------------
(* providers/_http.py                                                      *)
(*                                                                         *)
(* send_with_retries is a loop around two calls into its environment,      *)
(* client.send and sleep. attempt is the loop variable, sent the outcomes  *)
(* of client.send so far, sleeps the delays passed to sleep so far, and pc *)
(* the position of the loop: about to send, about to sleep, or left.       *)
(* Durations are in milliseconds.                                          *)

(* min(a, b) *)
min(a, b) == IF b < a THEN b ELSE a

(* float(header): the Retry-After values that are numbers of seconds; an   *)
(* HTTP date is not.                                                       *)
HeaderSeconds == [s0 |-> 0, s2 |-> 2000, s99 |-> 99000]

backoff_delay(attempt_number, c) ==
    min(c.backoff_seconds * (2 ^ attempt_number), c.backoff_cap_seconds)

retry_after_delay(response, c) ==
    IF response.retry_after = None THEN None
    ELSE IF Get(response.retry_after) \notin DOMAIN HeaderSeconds THEN None
    ELSE Some(min(HeaderSeconds[Get(response.retry_after)], c.retry_after_cap_seconds))

(* `retry_after or _backoff_delay(attempt)`: a delay of 0 is falsy. *)
rate_limit_delay(retry_after, c) ==
    IF retry_after # None /\ Get(retry_after) # 0 THEN Get(retry_after)
    ELSE backoff_delay(attempt, c)

(* What the loop body does with the outcome of client.send on this         *)
(* attempt: raise, return the response, or sleep for a delay and continue. *)
Raise(exc) == [do |-> "raise", exc |-> exc, delay |-> 0]

Sleep(delay) == [do |-> "sleep", exc |-> "", delay |-> delay]

loop_body(outcome, c, auth_statuses) ==
    IF outcome.kind \in {"TimeoutException", "TransportError"}
    THEN IF attempt < c.retries THEN Sleep(backoff_delay(attempt, c))
         ELSE Raise("ProviderTransientError")
    ELSE LET status == outcome.status
             retry_after == retry_after_delay(outcome, c)
         IN  IF status \in auth_statuses THEN Raise("ProviderAuthError")
             ELSE IF status = 429
             THEN IF attempt < c.retries THEN Sleep(rate_limit_delay(retry_after, c))
                  ELSE Raise("ProviderRateLimitError")
             ELSE IF status = 408 \/ (500 <= status /\ status < 600)
             THEN IF attempt < c.retries
                  THEN Sleep(IF status = 503 /\ retry_after # None THEN Get(retry_after)
                             ELSE backoff_delay(attempt, c))
                  ELSE Raise("ProviderTransientError")
             ELSE IF 400 <= status /\ status < 500 THEN Raise("ProviderRequestError")
             ELSE IF 200 <= status /\ status < 300
             THEN [do |-> "return", exc |-> "", delay |-> 0]
             ELSE Raise("ProviderTransientError")

on_outcome_rate_limit_as_transient(outcome, c) ==
    LET step == loop_body(outcome, c, {401, 403})
    IN  IF step.exc = "ProviderRateLimitError" THEN Raise("ProviderTransientError") ELSE step

on_outcome_forbidden_unclassified(outcome, c) == loop_body(outcome, c, {401})

(* The body of `for attempt in range(retries + 1)` from the outcome of     *)
(* client.send on.                                                         *)
on_outcome(outcome, c) == loop_body(outcome, c, {401, 403})

(* The calls and their environment. *)

MaxRetries == 2

Response(status, retry_after) ==
    [kind |-> "Response", status |-> status, retry_after |-> retry_after]

RetryAfterHeaders == {None, Some("s0"), Some("s2"), Some("s99"), Some("Wed, 21 Oct 2015 07:28:00 GMT")}

(* What client.send can do: raise, or return a response. *)
Outcomes ==
    {[kind |-> k, status |-> 0, retry_after |-> None] :
        k \in {"TimeoutException", "TransportError"}}
    \cup {Response(status, None) : status \in {200, 302, 400, 401, 403, 404, 408}}
    \cup {Response(status, h) : status \in {429, 503}, h \in RetryAfterHeaders}
    \cup {Response(500, h) : h \in {None, Some("s2")}}

InitHttp ==
    /\ \E retries \in (0 - 1)..MaxRetries, backoff_seconds \in {250, 6000} :
          call = [op |-> "send_with_retries", retries |-> retries,
                  backoff_seconds |-> backoff_seconds, backoff_cap_seconds |-> 10000,
                  retry_after_cap_seconds |-> 30000]
    /\ result = Pending
    /\ attempt = 0
    /\ sent = <<>>
    /\ sleeps = <<>>
    /\ pc = "send"
    /\ NoRun

(* client.send(request) returns or raises, and the loop body runs up to    *)
(* its raise, its return or its call of sleep.                             *)
Send ==
    /\ pc = "send"
    /\ attempt <= call.retries
    /\ \E outcome \in Outcomes :
          /\ sent' = Append(sent, outcome)
          /\ LET step == on_outcome(outcome, call)
             IN  /\ pc' = IF step.do = "sleep" THEN "sleep" ELSE "left"
                 /\ result' = CASE step.do = "raise" -> Raised(step.exc)
                                [] step.do = "return" -> Returned(outcome)
                                [] OTHER -> result
    /\ UNCHANGED <<call, attempt, sleeps, frame, database, invocations>>

(* sleep(delay) returns and the loop continues with the next attempt. *)
SleepAndContinue ==
    /\ pc = "sleep"
    /\ sleeps' = Append(sleeps, on_outcome(sent[Len(sent)], call).delay)
    /\ attempt' = attempt + 1
    /\ pc' = "send"
    /\ UNCHANGED <<call, result, sent, frame, database, invocations>>

(* range(retries + 1) is empty or used up. *)
RetriesExhausted ==
    /\ pc = "send"
    /\ attempt > call.retries
    /\ result' = Raised("ProviderTransientError")
    /\ pc' = "left"
    /\ UNCHANGED <<call, attempt, sent, sleeps, frame, database, invocations>>

NextHttp == Send \/ SleepAndContinue \/ RetriesExhausted

SpecHttp == InitHttp /\ [][NextHttp]_vars

(* client.send returns or raises within its timeout and sleep returns, so  *)
(* the loop always takes its next step.                                    *)
SpecHttpLive == SpecHttp /\ WF_vars(NextHttp)
----------------------------------------------------------------------------
(* domain/mappers: the resolution of a canonical value from the fields of  *)
(* a payload that can report it.  A field is None (absent or null) or      *)
(* Some(n).                                                                *)

(* Python's `a or b` on optional numbers: None and 0 are falsy. *)
or_else(a, b) == IF a # None /\ Get(a) # 0 THEN a ELSE b

(* tomorrow_io._daily_value(values, base, suffix): the suffixed key if it  *)
(* holds a value, else the base key.                                       *)
daily_value(suffixed, base) == IF suffixed # None THEN suffixed ELSE base

(* precipitation_probability of map_tomorrow_io_daily_forecast. *)
tomorrow_io_daily_pop(values) ==
    or_else(daily_value(values.precipitationProbabilityMax, values.precipitationProbability),
            daily_value(values.precipitationProbabilityAvg, values.precipitationProbability))

(* precipitation_mm of map_tomorrow_io_daily_forecast: the total of the    *)
(* accumulation sums that are reported, dropped when it is 0.              *)
tomorrow_io_daily_precip_total(sums) ==
    LET reported == SelectSeq(sums, LAMBDA value : value # None)
        precip_total == SeqSum([i \in DOMAIN reported |-> Get(reported[i])])
    IN  IF precip_total = 0 THEN None ELSE Some(precip_total)

(* openweather._extract_onecall_precipitation: rain and snow are a mapping *)
(* with the keys 1h and 3h, a number, or nothing.                          *)
extract_onecall_precipitation(rain, snow) ==
    IF rain.kind = "mapping" THEN or_else(rain.h1, rain.h3)
    ELSE IF rain.kind = "number" THEN rain.number
    ELSE IF snow.kind = "mapping" THEN or_else(snow.h1, snow.h3)
    ELSE IF snow.kind = "number" THEN snow.number
    ELSE None

(* precip_total of map_accuweather_hourly_forecast, from the metric values *)
(* of the TotalLiquid, Rain and Snow blocks.                               *)
accuweather_precip_total(total_liquid, rain_block, snow_block) ==
    or_else(or_else(total_liquid, rain_block), snow_block)

(* msc_geomet._select_temperature(temps, category): the first numeric      *)
(* value of an entry of the class.                                         *)
select_temperature(temps, category) ==
    LET matching == SelectSeq(temps, LAMBDA entry :
                                 entry.class = category /\ entry.value # None)
    IN  IF matching = <<>> THEN None ELSE matching[1].value

(* temperature_high_c of map_msc_geomet_forecast. *)
msc_geomet_temperature_high(temps, temperatureHigh) ==
    or_else(select_temperature(temps, "high"), temperatureHigh)

(* Payload fields. *)

Amounts == {None, Some(0), Some(5)}

Fallbacks == {None, Some(7)}

Precipitations ==
    {[kind |-> "nothing", number |-> None, h1 |-> None, h3 |-> None]}
    \cup {[kind |-> "number", number |-> n, h1 |-> None, h3 |-> None] : n \in {Some(0), Some(5)}}
    \cup {[kind |-> "mapping", number |-> None, h1 |-> h1, h3 |-> h3] :
             h1 \in Amounts, h3 \in Fallbacks}

Temperatures ==
    SeqsUpTo({[class |-> "high", value |-> Some(0)], [class |-> "high", value |-> None],
              [class |-> "high", value |-> Some(5)], [class |-> "low", value |-> Some(3)]}, 2)

InitValues ==
    /\ \/ \E max \in Amounts, avg \in Fallbacks, base \in Amounts :
             call = [op |-> "tomorrow_io_daily_pop",
                     values |-> [precipitationProbabilityMax |-> max,
                                 precipitationProbabilityAvg |-> avg,
                                 precipitationProbability |-> base]]
       \/ \E sums \in [1..4 -> Amounts] :
             call = [op |-> "tomorrow_io_daily_precip_total", sums |-> sums]
       \/ \E rain \in Precipitations, snow \in Precipitations :
             call = [op |-> "extract_onecall_precipitation", rain |-> rain, snow |-> snow]
       \/ \E total_liquid \in Amounts, rain_block \in Fallbacks, snow_block \in Amounts :
             call = [op |-> "accuweather_precip_total", total_liquid |-> total_liquid,
                     rain_block |-> rain_block, snow_block |-> snow_block]
       \/ \E temps \in Temperatures, temperatureHigh \in Fallbacks :
             call = [op |-> "msc_geomet_temperature_high", temps |-> temps,
                     temperatureHigh |-> temperatureHigh]
    /\ result = Pending
    /\ NoRequest

TomorrowIoDailyPop ==
    /\ call.op = "tomorrow_io_daily_pop"
    /\ result = Pending
    /\ result' = Returned(tomorrow_io_daily_pop(call.values))
    /\ UNCHANGED <<call, attempt, sent, sleeps, pc, frame, database, invocations>>

TomorrowIoDailyPrecipTotal ==
    /\ call.op = "tomorrow_io_daily_precip_total"
    /\ result = Pending
    /\ result' = Returned(tomorrow_io_daily_precip_total(call.sums))
    /\ UNCHANGED <<call, attempt, sent, sleeps, pc, frame, database, invocations>>

ExtractOnecallPrecipitation ==
    /\ call.op = "extract_onecall_precipitation"
    /\ result = Pending
    /\ result' = Returned(extract_onecall_precipitation(call.rain, call.snow))
    /\ UNCHANGED <<call, attempt, sent, sleeps, pc, frame, database, invocations>>

AccuweatherPrecipTotal ==
    /\ call.op = "accuweather_precip_total"
    /\ result = Pending
    /\ result' = Returned(accuweather_precip_total(call.total_liquid, call.rain_block,
                                                   call.snow_block))
    /\ UNCHANGED <<call, attempt, sent, sleeps, pc, frame, database, invocations>>

MscGeometTemperatureHigh ==
    /\ call.op = "msc_geomet_temperature_high"
    /\ result = Pending
    /\ result' = Returned(msc_geomet_temperature_high(call.temps, call.temperatureHigh))
    /\ UNCHANGED <<call, attempt, sent, sleeps, pc, frame, database, invocations>>

NextValues ==
    \/ TomorrowIoDailyPop
    \/ TomorrowIoDailyPrecipTotal
    \/ ExtractOnecallPrecipitation
    \/ AccuweatherPrecipTotal
    \/ MscGeometTemperatureHigh

SpecValues == InitValues /\ [][NextValues]_vars
----------------------------------------------------------------------------
(* pipeline.collect_all: for each provider in a fixed order, fetch its     *)
(* payloads, store each captured payload as a raw_payloads row and the     *)
(* data points derived from it as data_points rows, inside one             *)
(* transaction that is committed at the end.                               *)
(*                                                                         *)
(* frame holds the locals of collect_all (raw_count, point_count, errors,  *)
(* the connection with the rows of its open transaction, the provider     *)
(* block and the fetch it is at); database holds the committed rows.       *)

MaxFetched == 1

MaxCaptures == 1

MaxConfigured == 1

(* The try blocks of collect_all, in the order of the code. *)
PROVIDER_ORDER ==
    <<"ambient_weather", "msc_geomet", "msc_rdps_prognos", "openweather", "tomorrow_io",
      "accuweather">>

(* The keys of config.provider_keys a block needs before it fetches. *)
RequiredKeys ==
    [ambient_weather |-> {"WX_AMBIENT_API_KEY", "WX_AMBIENT_APPLICATION_KEY"},
     msc_geomet |-> {},
     msc_rdps_prognos |-> {},
     openweather |-> {"WX_OPENWEATHER_API_KEY"},
     tomorrow_io |-> {"WX_TOMORROW_IO_API_KEY"},
     accuweather |-> {"WX_ACCUWEATHER_API_KEY"}]

(* The fetches of a block, in the order of the code. *)
Fetches ==
    [ambient_weather |-> <<"observation">>,
     msc_geomet |-> <<"observation", "periods">>,
     msc_rdps_prognos |-> <<"rdps">>,
     openweather |-> <<"observation", "hourly", "daily">>,
     tomorrow_io |-> <<"observation", "hourly", "daily">>,
     accuweather |-> <<"location", "observation", "hourly", "daily">>]

(* The fields of the dataclass DataPoint. *)
DataPointFields ==
    {"provider", "product_kind", "metric_type", "value_num", "value_text", "unit", "value_raw",
     "unit_raw", "observed_at", "valid_start", "valid_end", "issued_at", "run_at", "local_day",
     "lead_unit", "lead_offset", "lead_label", "latitude", "longitude", "station",
     "source_field", "quality_flag"}

(* The attributes insert_data_points reads of each point. *)
InsertedAttributes ==
    {"provider", "product_kind", "metric_type", "value_num", "value_text", "unit", "value_raw",
     "unit_raw", "observed_at", "valid_start", "valid_end", "issued_at", "run_at", "local_day",
     "lead_unit", "lead_offset", "lead_label", "lead_day_index", "latitude", "longitude",
     "station", "source_field", "quality_flag"}

(* The parameters of forecast_to_datapoints. *)
forecast_to_datapoints_parameters ==
    {"forecast", "run_at", "tz_name", "product_kind", "source_fields", "quality_flag"}

(* The state of the body of a try block: the counters, the connection and  *)
(* the exception that ended the block, if any.                             *)
Raising(s, exc) == [s EXCEPT !.raised = Some(exc)]

(* storage.sqlite.insert_raw_payload, followed by the count of _store:     *)
(* the new row gets the next id.                                           *)
insert_raw_payload_counted_first(s, provider, stored) ==
    LET counted == [s EXCEPT !.raw_count = @ + 1]
    IN  IF ~stored THEN Raising(counted, "OperationalError")
        ELSE [counted EXCEPT !.connection.raw_payloads =
                 Append(@, [id |-> Len(@) + 1, provider |-> provider])]

insert_raw_payload(s, provider, stored) ==
    IF ~stored THEN Raising(s, "OperationalError")
    ELSE [s EXCEPT !.connection.raw_payloads = Append(@, [id |-> Len(@) + 1,
                                                          provider |-> provider]),
                   !.raw_count = @ + 1]

(* storage.sqlite.insert_data_points followed by point_count += len(points):*)
(* the rows are built from the attributes of each point before any is      *)
(* written.                                                                *)
insert_data_points(s, raw_id, points) ==
    IF s.raised # None \/ points = 0 THEN s
    ELSE IF ~(InsertedAttributes \subseteq DataPointFields) THEN Raising(s, "AttributeError")
    ELSE [s EXCEPT !.connection.data_points = @ \o [i \in 1..points |-> [raw_id |-> raw_id]],
                   !.point_count = @ + points]

(* pipeline._forecast_points followed by insert_data_points: the daily     *)
(* branch passes lead_day_index to forecast_to_datapoints.                 *)
forecast_points(s, raw_id, periods, fields, product_kind) ==
    IF s.raised # None THEN s
    ELSE IF /\ product_kind = "forecast_daily"
            /\ periods > 0
            /\ "lead_day_index" \notin forecast_to_datapoints_parameters
         THEN Raising(s, "TypeError")
    ELSE insert_data_points(s, raw_id, periods * fields)

(* One fetch of a block and the storing of what it returned.  outcome says *)
(* how far the fetch got: the request failed, the capture could not be     *)
(* stored, the captured payload was rejected, or it was mapped to periods  *)
(* (one for an observation) that report `fields` metrics each.             *)
fetch_and_store(s, provider, kind, o) ==
    IF o.outcome = "request_failed" THEN Raising(s, "ProviderRequestError")
    ELSE LET captured == insert_raw_payload(s, provider, o.outcome # "store_failed")
             raw_id == Len(captured.connection.raw_payloads)
         IN  IF captured.raised # None THEN captured
             ELSE IF o.outcome = "payload_rejected" THEN Raising(captured, "ProviderPayloadError")
             ELSE CASE kind = "location" -> captured
                    [] kind = "observation" -> insert_data_points(captured, raw_id, o.fields)
                    [] kind = "hourly" ->
                          forecast_points(captured, raw_id, o.periods, o.fields,
                                          "forecast_hourly")
                    [] kind = "daily" ->
                          forecast_points(captured, raw_id, o.periods, o.fields,
                                          "forecast_daily")
                    [] kind = "periods" ->
                          forecast_points(forecast_points(captured, raw_id, o.periods, o.fields,
                                                          "forecast_hourly"),
                                          raw_id, IF o.periods > 0 THEN 1 ELSE 0, o.fields,
                                          "forecast_daily")

RECURSIVE capture_rdps(_, _, _)
(* _capture_rdps for each payload fetch_msc_rdps_prognos_forecast captures.*)
capture_rdps(s, captures, failed) ==
    IF captures = 0 \/ s.raised # None THEN s
    ELSE capture_rdps(insert_raw_payload(s, "msc_rdps_prognos", captures # failed),
                      captures - 1, failed)

RECURSIVE rdps_hourly(_, _, _, _)
(* The loop over rdps_periods: the points of each period whose payload was *)
(* captured are inserted, and counted after the loop.                      *)
rdps_hourly(s, raw_id, periods, fields) ==
    IF periods = 0 \/ s.raised # None THEN s
    ELSE LET inserted == insert_data_points(s, raw_id, fields)
         IN  rdps_hourly([inserted EXCEPT !.point_count = s.point_count], raw_id,
                         periods - 1, fields)

(* The MSC RDPS PROGNOS block. *)
fetch_and_store_rdps(s, o) ==
    LET captured == capture_rdps(s, o.captures, o.failed)
        raw_id == Len(captured.connection.raw_payloads)
        looped == rdps_hourly(captured, raw_id, IF o.anchored THEN o.periods ELSE 0, o.fields)
        counted == IF looped.raised # None THEN looped
                   ELSE [looped EXCEPT !.point_count =
                            @ + Len(looped.connection.data_points)
                              - Len(captured.connection.data_points)]
    IN  IF captured.raised # None THEN captured
        ELSE IF o.outcome = "request_failed" THEN Raising(captured, "ProviderRequestError")
        ELSE IF o.outcome = "payload_rejected" THEN Raising(captured, "ProviderPayloadError")
        ELSE forecast_points(counted, raw_id, IF o.periods > 0 THEN 1 ELSE 0, o.fields,
                             "forecast_daily")

(* Leaving a try block: the next block starts at its first fetch. *)
next_block(f, provider) ==
    [f EXCEPT !.block = @ + 1, !.step = 1, !.raised = None,
              !.attempted = IF RequiredKeys[provider] \subseteq call.provider_keys
                            THEN Append(@, provider) ELSE @]

(* except Exception as exc: errors.append(f"<provider>: {exc}"). *)
on_exception_stopping(s, provider) ==
    [next_block(s, provider) EXCEPT !.errors = Append(@, <<provider, ": ", Get(s.raised)>>),
                                    !.block = Len(PROVIDER_ORDER) + 1]

on_exception(s, provider) ==
    [next_block(s, provider) EXCEPT !.errors = Append(@, <<provider, ": ", Get(s.raised)>>)]

(* Where collect_all is after a fetch that left the block in state s. *)
after_fetch(s, provider) ==
    IF s.raised # None THEN on_exception(s, provider)
    ELSE IF s.step = Len(Fetches[provider]) THEN next_block(s, provider)
    ELSE [s EXCEPT !.step = @ + 1]

(* What a fetch can do. *)

FetchOutcomes ==
    {[outcome |-> outcome, periods |-> 0, fields |-> 0] :
        outcome \in {"request_failed", "store_failed", "payload_rejected"}}
    \cup {[outcome |-> "mapped", periods |-> periods, fields |-> fields] :
             periods \in 0..MaxFetched, fields \in 0..1}

RdpsOutcomes ==
    {[outcome |-> outcome, captures |-> captures, failed |-> failed, periods |-> 0,
      fields |-> 0, anchored |-> FALSE] :
        outcome \in {"request_failed", "payload_rejected"}, captures \in 0..MaxCaptures,
        failed \in 0..MaxCaptures}
    \cup {[outcome |-> "mapped", captures |-> captures, failed |-> failed,
           periods |-> periods, fields |-> fields, anchored |-> anchored] :
             captures \in 1..MaxCaptures, failed \in 0..MaxCaptures,
             periods \in 0..MaxFetched, fields \in 0..1, anchored \in BOOLEAN}

ProviderKeys ==
    {"WX_AMBIENT_API_KEY", "WX_AMBIENT_APPLICATION_KEY", "WX_OPENWEATHER_API_KEY",
     "WX_TOMORROW_IO_API_KEY", "WX_ACCUWEATHER_API_KEY"}

FreshDatabase == [raw_payloads |-> <<>>, data_points |-> <<>>]

(* The configurations: at most MaxConfigured of the providers that need    *)
(* keys have them (MSC GeoMet and MSC RDPS PROGNOS need none).             *)
Configured(provider_keys) ==
    {provider \in DOMAIN RequiredKeys :
        RequiredKeys[provider] # {} /\ RequiredKeys[provider] \subseteq provider_keys}

Configurations ==
    {provider_keys \in SUBSET ProviderKeys :
        Cardinality(Configured(provider_keys)) <= MaxConfigured}

InitPipeline ==
    /\ \E provider_keys \in Configurations :
          call = [op |-> "collect_all", provider_keys |-> provider_keys]
    /\ result = Pending
    /\ attempt = 0
    /\ sent = <<>>
    /\ sleeps = <<>>
    /\ pc = "collect_all"
    /\ frame = <<>>
    /\ database = FreshDatabase
    /\ invocations = <<>>

(* open_database, ensure_schema and the initial values of the locals. *)
OpenDatabase ==
    /\ pc = "collect_all"
    /\ frame' = [raw_count |-> 0, point_count |-> 0, errors |-> <<>>, attempted |-> <<>>,
                 connection |-> database @@ [state |-> "open"],
                 block |-> 1, step |-> 1, raised |-> None]
    /\ pc' = "collecting"
    /\ UNCHANGED <<call, result, attempt, sent, sleeps, database, invocations>>

(* A try block whose keys are not configured fetches nothing. *)
SkipProvider ==
    /\ pc = "collecting"
    /\ frame.block <= Len(PROVIDER_ORDER)
    /\ LET provider == PROVIDER_ORDER[frame.block]
       IN  /\ ~(RequiredKeys[provider] \subseteq call.provider_keys)
           /\ frame' = next_block(frame, provider)
    /\ UNCHANGED <<call, result, attempt, sent, sleeps, pc, database, invocations>>

(* One fetch of the current block, with the storing that follows it. *)
Fetch ==
    /\ pc = "collecting"
    /\ frame.block <= Len(PROVIDER_ORDER)
    /\ LET provider == PROVIDER_ORDER[frame.block]
           kind == Fetches[provider][frame.step]
       IN  /\ RequiredKeys[provider] \subseteq call.provider_keys
           /\ kind # "rdps"
           /\ \E o \in FetchOutcomes :
                 frame' = after_fetch(fetch_and_store(frame, provider, kind, o), provider)
    /\ UNCHANGED <<call, result, attempt, sent, sleeps, pc, database, invocations>>

(* The MSC RDPS PROGNOS block: one fetch that captures several payloads. *)
FetchRdps ==
    /\ pc = "collecting"
    /\ frame.block <= Len(PROVIDER_ORDER)
    /\ LET provider == PROVIDER_ORDER[frame.block]
       IN  /\ Fetches[provider][frame.step] = "rdps"
           /\ \E o \in RdpsOutcomes :
                 /\ o.failed <= o.captures
                 /\ frame' = after_fetch(fetch_and_store_rdps(frame, o), provider)
    /\ UNCHANGED <<call, result, attempt, sent, sleeps, pc, database, invocations>>

(* connection.commit(), connection.close() and the return. *)
CommitAndClose ==
    /\ pc = "collecting"
    /\ frame.block = Len(PROVIDER_ORDER) + 1
    /\ database' = [raw_payloads |-> frame.connection.raw_payloads,
                    data_points |-> frame.connection.data_points]
    /\ frame' = [frame EXCEPT !.connection.state = "closed"]
    /\ result' = Returned([raw_payloads |-> frame.raw_count,
                           data_points |-> frame.point_count,
                           errors |-> frame.errors])
    /\ pc' = "done"
    /\ UNCHANGED <<call, attempt, sent, sleeps, invocations>>

NextPipeline ==
    \/ OpenDatabase
    \/ SkipProvider
    \/ Fetch
    \/ FetchRdps
    \/ CommitAndClose

SpecPipeline == InitPipeline /\ [][NextPipeline]_vars
----------------------------------------------------------------------------
(* runtime.run_hourly: invocations that share a data root (its lock file)  *)
(* and a database.  invocations[p] is the position and the locals of       *)
(* invocation p, with the events it logged, the manifest it wrote and the  *)
(* code it returned; database holds the committed rows, a data_points row  *)
(* by its run_at.  Instants are seconds in UTC: the run_at_utc texts are   *)
(* isoformat() of datetimes in UTC, whose order as text is their order as  *)
(* instants.                                                               *)

MaxInvocations == 2

(* run_at of an invocation: the clock without minutes and seconds. *)
truncate_to_hour(run_clock) == run_clock - (run_clock % HOUR)

(* runtime._hour_window *)
hour_window(run_at) ==
    [start |-> truncate_to_hour(run_at), end |-> truncate_to_hour(run_at) + HOUR]

(* runtime._already_ran: SELECT 1 FROM data_points WHERE run_at_utc >= ?   *)
(* AND run_at_utc < ? LIMIT 1                                              *)
already_ran_never(data_points, run_at) == FALSE

already_ran(data_points, run_at) ==
    \E i \in DOMAIN data_points :
        /\ data_points[i].run_at >= hour_window(run_at).start
        /\ data_points[i].run_at < hour_window(run_at).end

(* runtime._acquire_lock: without fcntl the open handle is returned; with  *)
(* it, flock(LOCK_EX | LOCK_NB) fails while another open file description  *)
(* holds the lock.                                                         *)
acquire_lock(p) ==
    IF ~call.fcntl THEN "open"
    ELSE IF \E q \in DOMAIN invocations : q # p /\ invocations[q].lock = "flocked"
         THEN "unavailable"
    ELSE "flocked"

(* The parameters of pipeline.collect_all, and the keyword arguments       *)
(* run_hourly calls it with (config is passed by position).                *)
collect_all_parameters == {"config", "db_path", "client", "clock", "msc_rdps_max_lead_hours"}

collect_all_keywords == {"db_path", "clock", "msc_rdps_max_lead_hours", "event_logger"}

(* The finally of run_hourly: the manifest, the finish event, lock.close() *)
(* and the return.                                                         *)
finish(inv, status, counts, return_code) ==
    [inv EXCEPT !.pc = "done",
                !.manifest = Some([status |-> status, counts |-> counts]),
                !.events = Append(@, <<"finish", status>>),
                !.lock = "closed",
                !.returned = Some(return_code)]

NoCounts == [raw_payloads |-> 0, data_points |-> 0]

Clocks == {DAY + 13 * HOUR, DAY + 13 * HOUR + 30 * MINUTE, DAY + 14 * HOUR}

StoredRuns == {DAY + 12 * HOUR, DAY + 13 * HOUR, DAY + 13 * HOUR + 59 * MINUTE, DAY + 14 * HOUR}

InitRuntime ==
    /\ \E fcntl \in BOOLEAN : call = [op |-> "run_hourly", fcntl |-> fcntl]
    /\ result = Pending
    /\ attempt = 0
    /\ sent = <<>>
    /\ sleeps = <<>>
    /\ pc = "run_hourly"
    /\ frame = <<>>
    /\ \E stored \in SubsetsUpTo(StoredRuns, 1) :
          database = [raw_payloads |-> <<>>,
                      data_points |-> IF stored = {} THEN <<>>
                                      ELSE <<[run_at |-> CHOOSE t \in stored : TRUE]>>]
    /\ \E clocks \in [1..MaxInvocations -> Clocks] :
          invocations = [p \in 1..MaxInvocations |->
                            [pc |-> "acquire_lock", run_at |-> truncate_to_hour(clocks[p]),
                             lock |-> "none", events |-> <<>>, manifest |-> None,
                             collected |-> FALSE, returned |-> None]]

(* load_config, run_at and _acquire_lock; when the lock is not available   *)
(* the skip is logged and 0 returned.                                      *)
AcquireLock(p) ==
    /\ invocations[p].pc = "acquire_lock"
    /\ LET lock == acquire_lock(p)
       IN  invocations' =
              [invocations EXCEPT ![p] =
                  IF lock = "unavailable"
                  THEN [@ EXCEPT !.pc = "done",
                                 !.events = Append(@, <<"skip", "lock_unavailable">>),
                                 !.returned = Some(0)]
                  ELSE [@ EXCEPT !.pc = "already_ran", !.lock = lock,
                                 !.events = Append(@, <<"start", "">>)]]
    /\ UNCHANGED <<call, result, attempt, sent, sleeps, pc, frame, database>>

(* open_database, ensure_schema and _already_ran; a run that finds a row   *)
(* of its hour logs the skip and returns 0 through the finally.            *)
CheckAlreadyRan(p) ==
    /\ invocations[p].pc = "already_ran"
    /\ invocations' =
          [invocations EXCEPT ![p] =
              IF already_ran(database.data_points, @.run_at)
              THEN finish([@ EXCEPT !.events = Append(@, <<"skip", "already_ran">>)],
                          "skipped", NoCounts, 0)
              ELSE [@ EXCEPT !.pc = "collect_all"]]
    /\ UNCHANGED <<call, result, attempt, sent, sleeps, pc, frame, database>>

(* The call of collect_all and what follows it.  The call passes           *)
(* event_logger, which collect_all does not take: it raises TypeError and  *)
(* the run ends with status error and code 2.  A call that binds runs      *)
(* collect_all, which commits the raw payloads it captured and, in this    *)
(* source, no data point.                                                  *)
CollectAll(p) ==
    /\ invocations[p].pc = "collect_all"
    /\ IF collect_all_keywords \subseteq collect_all_parameters
       THEN \E raw_payloads \in 0..1, failed \in BOOLEAN :
               /\ database' =
                     [database EXCEPT !.raw_payloads =
                         @ \o [i \in 1..raw_payloads |-> [run_at |-> invocations[p].run_at]]]
               /\ invocations' =
                     [invocations EXCEPT ![p] =
                         finish([@ EXCEPT !.collected = TRUE],
                                IF raw_payloads = 0 THEN "no_data"
                                ELSE IF failed THEN "partial" ELSE "success",
                                [raw_payloads |-> raw_payloads, data_points |-> 0],
                                IF raw_payloads = 0 THEN 1 ELSE 0)]
       ELSE /\ invocations' = [invocations EXCEPT ![p] = finish(@, "error", NoCounts, 2)]
            /\ UNCHANGED database
    /\ UNCHANGED <<call, result, attempt, sent, sleeps, pc, frame>>

NextRuntime ==
    \/ \E p \in DOMAIN invocations : AcquireLock(p)
    \/ \E p \in DOMAIN invocations : CheckAlreadyRan(p)
    \/ \E p \in DOMAIN invocations : CollectAll(p)

SpecRuntime == InitRuntime /\ [][NextRuntime]_vars
----------------------------------------------------------------------------
(* providers.capture.capture_payload: the redacted record of a request.    *)
(* A request has a URL (its base and its query items) and header items,    *)
(* each item a <<key, value>> pair; a dict is a function of its keys, the  *)
(* last item of a key giving its value.                                    *)

MaxParams == 2

MaxHeaders == 2

SENSITIVE_QUERY_KEYS == {"appid", "apikey", "apiKey", "applicationKey", "key", "token"}

SENSITIVE_HEADER_KEYS == {"authorization", "x-api-key"}

(* The value a dict built by `cleaned[key] = value` over the items holds   *)
(* for the key.                                                            *)
LastValue(items, key) ==
    LET last == CHOOSE i \in DOMAIN items :
                    /\ items[i][1] = key
                    /\ \A j \in DOMAIN items : j > i => items[j][1] # key
    IN  items[last][2]

Keys(items) == {items[i][1] : i \in DOMAIN items}

(* capture._sanitize_params *)
sanitize_params(params) ==
    [key \in Keys(params) |->
        IF key \in SENSITIVE_QUERY_KEYS THEN "REDACTED" ELSE LastValue(params, key)]

(* capture._sanitize_headers *)
sanitize_headers_case_sensitive(headers) ==
    [key \in Keys(headers) |->
        IF key \in SENSITIVE_HEADER_KEYS THEN "REDACTED" ELSE LastValue(headers, key)]

sanitize_headers(headers) ==
    [key \in Keys(headers) |->
        IF lower(key) \in SENSITIVE_HEADER_KEYS THEN "REDACTED" ELSE LastValue(headers, key)]

(* httpx: URL.copy_with(params=None) drops the query. *)
copy_with_params(url, params) ==
    [url EXCEPT !.query = IF params = None \/ Get(params) = <<>> THEN None ELSE params]

RECURSIVE urlencode(_)
(* The query string, as the pieces it is written from. *)
urlencode(items) ==
    IF items = <<>> THEN <<>>
    ELSE <<items[1][1], "=", items[1][2]>>
         \o (IF Len(items) > 1 THEN <<"&">> ELSE <<>>) \o urlencode(Tail(items))

(* str(url) *)
str_url(url) ==
    <<url.base>> \o (IF url.query = None THEN <<>> ELSE <<"?">> \o urlencode(Get(url.query)))

(* The request a client builds from a base URL, params and headers. *)
build_request(base, params, headers) ==
    [url |-> copy_with_params([base |-> base, query |-> None], Some(params)),
     headers |-> headers]

(* capture.capture_payload: the fields taken from the request. *)
capture_payload(request) ==
    [request_url |-> str_url(copy_with_params(request.url, None)),
     request_params |-> sanitize_params(IF request.url.query = None THEN <<>>
                                        ELSE Get(request.url.query)),
     request_headers |-> sanitize_headers(request.headers)]

(* Requests: the items whose value is a secret carry the secret of the     *)
(* request.                                                                *)

Secrets == {"secret-a", "secret-b"}

ParamKeys == SENSITIVE_QUERY_KEYS \cup {"lat"}

HeaderKeys == {"authorization", "Authorization", "x-api-key", "X-API-Key", "accept"}

ItemsOf(keys, sensitive, plain, secret) ==
    [i \in DOMAIN keys |-> <<keys[i], IF keys[i] \in sensitive THEN secret ELSE plain>>]

RequestWith(param_keys, header_keys, secret) ==
    build_request("https://api.example.test/v1/weather",
                  ItemsOf(param_keys, SENSITIVE_QUERY_KEYS, "45.4", secret),
                  ItemsOf(header_keys,
                          {"authorization", "Authorization", "x-api-key", "X-API-Key"},
                          "application/json", secret))

InitCapture ==
    /\ \E param_keys \in SeqsUpTo(ParamKeys, MaxParams),
          header_keys \in SeqsUpTo(HeaderKeys, MaxHeaders) :
          call = [op |-> "capture_payload",
                  request |-> RequestWith(param_keys, header_keys, "secret-a"),
                  twin |-> RequestWith(param_keys, header_keys, "secret-b")]
    /\ result = Pending
    /\ NoRequest

(* capture_payload of the request and of its twin. *)
CapturePayload ==
    /\ call.op = "capture_payload"
    /\ result = Pending
    /\ result' = Returned([capture |-> capture_payload(call.request),
                           twin |-> capture_payload(call.twin)])
    /\ UNCHANGED <<call, attempt, sent, sleeps, pc, frame, database, invocations>>

NextCapture == CapturePayload

SpecCapture == InitCapture /\ [][NextCapture]_vars
----------------------------------------------------------------------------
(* Properties of the DataPoint materializer.                               *)

Done(op) == call.op = op /\ result.status # "pending"

Points == result.value

PresentFields(values) == {f \in DOMAIN values : values[f] # None}

metric_type_of(registry, field_name) ==
    registry[CHOOSE i \in DOMAIN registry : registry[i].field_name = field_name].metric_type

(* C1: an Observation with exactly k non-absent registry fields explodes   *)
(* into exactly k DataPoints, one for each non-absent registry field and   *)
(* none for an absent one, every one of product_kind "observation".        *)
C1_ObservationCompleteness ==
    Done("observation_to_datapoints") =>
        /\ result.status = "ok"
        /\ Len(Points) = Cardinality(PresentFields(call.observation.values))
        /\ \A f \in ObservationFields :
              Cardinality({i \in DOMAIN Points :
                              Points[i].metric_type = metric_type_of(OBSERVATION_METRICS, f)})
                 = IF call.observation.values[f] # None THEN 1 ELSE 0
        /\ \A i \in DOMAIN Points : Points[i].product_kind = "observation"

(* An observation with three populated fields, one of them holding 0, has  *)
(* been exploded into three points.                                        *)
C1_Witness ==
    /\ Done("observation_to_datapoints")
    /\ Cardinality(PresentFields(call.observation.values)) = 3
    /\ call.observation.values["temperature_c"] = Some(0)
    /\ Len(Points) = 3

(* The instant of the top of the wall-clock hour a datetime lies in. *)
TopOfHour(dt) ==
    CHOOSE h \in (dt.utc - (HOUR - 1))..dt.utc : (h + dt.off) % HOUR = 0

HourlyDelta == TopOfHour(call.forecast.start_time) - TopOfHour(call.run_at)

(* C2: for forecast_hourly every point has lead_unit "hour" and            *)
(* lead_offset = floor((start_time truncated to the hour - run_at          *)
(* truncated to the hour) / 3600 s), flooring toward minus infinity; a     *)
(* start_time in the same clock hour as run_at gives 0.                    *)
C2_HourlyLeadOffset ==
    (Done("forecast_to_datapoints") /\ call.product_kind = PRODUCT_FORECAST_HOURLY) =>
        /\ result.status = "ok"
        /\ \A i \in DOMAIN Points :
              /\ Points[i].lead_unit = Some("hour")
              /\ Points[i].lead_offset # None
              /\ LET k == Get(Points[i].lead_offset)
                 IN  /\ k * HOUR <= HourlyDelta
                     /\ HourlyDelta < (k + 1) * HOUR
                     /\ (HourlyDelta = 0 => k = 0)

(* An hourly period that starts before the run, both instants off the top  *)
(* of the hour, has been exploded with a negative lead.                    *)
C2_Witness ==
    /\ Done("forecast_to_datapoints")
    /\ call.product_kind = PRODUCT_FORECAST_HOURLY
    /\ call.forecast.start_time.utc < call.run_at.utc
    /\ call.forecast.start_time.utc % HOUR # 0
    /\ call.run_at.utc % HOUR # 0
    /\ Len(Points) > 0
    /\ Get(Points[1].lead_offset) < 0

(* The local calendar day (as a day number) an instant falls on in a zone. *)
LocalDate(t, tz_name) ==
    CHOOSE d \in -1..(MaxDay + 2) :
        /\ d * DAY <= t + utcoffset(tz_name, t)
        /\ t + utcoffset(tz_name, t) < (d + 1) * DAY

(* C3: for forecast_daily lead_offset is the local date of start_time      *)
(* minus the local date of run_at, in tz_name, in whole days, also when    *)
(* the UTC dates differ from the local ones.                               *)
C3_DailyLeadOffset ==
    (Done("forecast_to_datapoints") /\ call.product_kind = PRODUCT_FORECAST_DAILY) =>
        /\ result.status = "ok"
        /\ \A i \in DOMAIN Points :
              /\ Points[i].lead_unit = Some("day")
              /\ Points[i].lead_offset =
                    Some(LocalDate(call.forecast.start_time.utc, call.tz_name)
                         - LocalDate(call.run_at.utc, call.tz_name))

(* Run at 23:30 Los Angeles time of the day before day 0 (07:30 UTC of day *)
(* 0), period starting 00:00 Los Angeles time of day 1 (08:00 UTC of day   *)
(* 1): the lead is 2 days although the UTC dates are one day apart.        *)
C3_Witness ==
    /\ Done("forecast_to_datapoints")
    /\ call.product_kind = PRODUCT_FORECAST_DAILY
    /\ call.tz_name = "America/Los_Angeles"
    /\ call.run_at.utc = 7 * HOUR + 1800
    /\ call.forecast.start_time.utc = DAY + 8 * HOUR
    /\ Len(Points) > 0
    /\ Points[1].lead_offset = Some(2)

(* C4 as stated: local_day is populated only on forecast_daily points (and *)
(* is then the local date of start_time); observation and forecast_hourly  *)
(* points have it absent.                                                  *)
C4_LocalDayOnlyDaily ==
    (Done("observation_to_datapoints") \/ Done("forecast_to_datapoints")) =>
        \A i \in DOMAIN Points :
            IF Points[i].product_kind = PRODUCT_FORECAST_DAILY
            THEN Points[i].local_day =
                    Some(LocalDate(call.forecast.start_time.utc, call.tz_name))
            ELSE Points[i].local_day = None

(* C4 amended: local_day is absent exactly on forecast_hourly points; on   *)
(* forecast_daily points it is the local date of start_time and on         *)
(* observation points the local date of observed_at, both in tz_name.      *)
C4_LocalDayByKind ==
    /\ Done("observation_to_datapoints") =>
          \A i \in DOMAIN Points :
              Points[i].local_day =
                 Some(LocalDate(call.observation.observed_at.utc, call.tz_name))
    /\ Done("forecast_to_datapoints") =>
          \A i \in DOMAIN Points :
              /\ Points[i].product_kind = call.product_kind
              /\ Points[i].local_day =
                    IF call.product_kind = PRODUCT_FORECAST_DAILY
                    THEN Some(LocalDate(call.forecast.start_time.utc, call.tz_name))
                    ELSE None

(* An observation taken in the last second of UTC day 0 has been exploded  *)
(* for a zone ahead of UTC: its points carry local day 1.                  *)
C4_Witness ==
    /\ Done("observation_to_datapoints")
    /\ call.tz_name = "Asia/Kolkata"
    /\ call.observation.observed_at.utc = 23 * HOUR + 3599
    /\ Len(Points) > 0
    /\ Points[1].local_day = Some(1)

(* C12: forecast_to_datapoints with a product_kind other than              *)
(* forecast_hourly and forecast_daily, "observation" included, raises      *)
(* ValueError and returns no DataPoint, whatever the period holds.         *)
C12_UnsupportedKindRaises ==
    (Done("forecast_to_datapoints")
       /\ call.product_kind \notin {"forecast_hourly", "forecast_daily"}) =>
        /\ result.status = "ValueError"
        /\ result.value = <<>>

(* A period with two populated fields has been refused for the product    *)
(* kind "observation".                                                     *)
C12_Witness ==
    /\ Done("forecast_to_datapoints")
    /\ call.product_kind = "observation"
    /\ Cardinality(PresentFields(call.forecast.values)) = 2
    /\ result.status = "ValueError"

(* The registry the called operation walks. *)
RegistryOfCall ==
    IF call.op = "observation_to_datapoints" THEN OBSERVATION_METRICS ELSE FORECAST_METRICS

(* The position in the registry of the entry with a metric type. *)
RegistryIndex(metric_type) ==
    CHOOSE k \in DOMAIN RegistryOfCall : RegistryOfCall[k].metric_type = metric_type

Exploded == Done("observation_to_datapoints") \/ Done("forecast_to_datapoints")

(* C13: every emitted DataPoint has exactly one of value_num and           *)
(* value_text: value_text alone when its registry entry is declared text,  *)
(* value_num alone otherwise.                                              *)
C13_ExactlyOneValue ==
    Exploded =>
        \A i \in DOMAIN Points :
            IF RegistryOfCall[RegistryIndex(Points[i].metric_type)].is_text
            THEN Points[i].value_text # None /\ Points[i].value_num = None
            ELSE Points[i].value_num # None /\ Points[i].value_text = None

(* A forecast period with a temperature and a summary has been exploded    *)
(* into a numeric point and a text point.                                  *)
C13_Witness ==
    /\ Done("forecast_to_datapoints")
    /\ Len(Points) = 2
    /\ Points[1].value_num = Some(0) /\ Points[1].value_text = None
    /\ Points[2].value_text = Some("") /\ Points[2].value_num = None

ForecastOnlyAttributes ==
    {"valid_start", "valid_end", "issued_at", "lead_unit", "lead_offset", "lead_label"}

(* C14: every emitted DataPoint has run_at; observed_at is populated       *)
(* exactly on observation points; valid_start, valid_end, issued_at,       *)
(* lead_unit, lead_offset and lead_label are populated exactly on points   *)
(* of the forecast kinds.                                                  *)
C14_TimeFieldsByKind ==
    Exploded =>
        \A i \in DOMAIN Points :
            /\ Points[i].run_at = Some(call.run_at)
            /\ Points[i].observed_at # None <=> Points[i].product_kind = "observation"
            /\ \A a \in ForecastOnlyAttributes :
                  Points[i][a] # None
                     <=> Points[i].product_kind \in {"forecast_hourly", "forecast_daily"}

(* An observation has been exploded into points that carry its            *)
(* observation time and no forecast attribute.                             *)
C14_Witness ==
    /\ Done("observation_to_datapoints")
    /\ Len(Points) = 2
    /\ Points[1].observed_at = Some(call.observation.observed_at)
    /\ \A a \in ForecastOnlyAttributes : Points[2][a] = None

(* C15: the points emitted for one record follow the order of the metric   *)
(* registry: of any two points the one whose entry comes first in the      *)
(* registry comes first in the output.                                     *)
C15_RegistryOrder ==
    Exploded =>
        \A i, j \in DOMAIN Points :
            i < j => RegistryIndex(Points[i].metric_type) < RegistryIndex(Points[j].metric_type)

(* A forecast period with temperature_c, precipitation_mm and summary has  *)
(* been exploded in registry order, which is not the alphabetical one.     *)
C15_Witness ==
    /\ Done("forecast_to_datapoints")
    /\ PresentFields(call.forecast.values) = {"temperature_c", "precipitation_mm", "summary"}
    /\ [i \in DOMAIN Points |-> Points[i].metric_type]
          = <<metric_type_of(FORECAST_METRICS, "temperature_c"),
              metric_type_of(FORECAST_METRICS, "precipitation_mm"),
              metric_type_of(FORECAST_METRICS, "summary")>>

RECURSIVE Decimal(_)
(* The decimal digits of a natural number. *)
Decimal(n) ==
    LET digit == <<"0", "1", "2", "3", "4", "5", "6", "7", "8", "9">>[(n % 10) + 1]
    IN  IF n < 10 THEN digit ELSE Decimal(n \div 10) \o digit

(* C16: lead_label is "+" and the offset for an offset of zero or more,    *)
(* "-" and the magnitude for a negative offset, followed by "h" on hourly  *)
(* and "d" on daily points.                                                *)
C16_LeadLabel ==
    Done("forecast_to_datapoints") =>
        \A i \in DOMAIN Points :
            LET offset == Get(Points[i].lead_offset)
                suffix == IF Points[i].product_kind = "forecast_hourly" THEN "h" ELSE "d"
            IN  Points[i].lead_label =
                   Some((IF offset >= 0 THEN "+" \o Decimal(offset)
                         ELSE "-" \o Decimal(0 - offset)) \o suffix)

(* An hourly period that starts in the clock hour of the run, after the    *)
(* run, carries the label "+0h".                                           *)
C16_Witness ==
    /\ Done("forecast_to_datapoints")
    /\ call.forecast.start_time.utc > call.run_at.utc
    /\ Len(Points) > 0
    /\ Points[1].lead_label = Some("+0h")

----------------------------------------------------------------------------
(* Properties of the daily aggregator.                                     *)

Dailies == result.value

(* The input periods whose start falls on the local day a daily period covers. *)
GroupOf(daily) ==
    SelectSeq(call.periods,
              LAMBDA p : LocalDate(p.start_time.utc, call.tz_name)
                            = LocalDate(daily.start_time.utc, call.tz_name))

(* The values the entries of a group hold for a field. *)
ReportedValues(entries, f) ==
    {Get(entries[i].values[f]) : i \in {j \in DOMAIN entries : entries[j].values[f] # None}}

RECURSIVE ReportedSum(_, _, _)
ReportedSum(entries, f, n) ==
    IF n = 0 THEN 0
    ELSE ReportedSum(entries, f, n - 1)
            + (IF entries[n].values[f] # None THEN Get(entries[n].values[f]) ELSE 0)

Greatest(S) == CHOOSE x \in S : \A y \in S : y <= x

Least(S) == CHOOSE x \in S : \A y \in S : x <= y

(* A rational <<n, d>> lies between two integers. *)
Between(q, lo, hi) == lo * q[2] <= q[1] /\ q[1] <= hi * q[2]

ReducedFields == {f \in ForecastFields : REDUCERS[f] # "unset"}

(* What a reduced field may hold given the values the group reports for it. *)
ReducedOverReported(entries, daily, f) ==
    LET reported == ReportedValues(entries, f)
        out == daily.values[f]
    IN  reported # {} =>
           /\ out # None
           /\ IF REDUCERS[f] = "sum"
              THEN Get(out) = <<ReportedSum(entries, f, Len(entries)), 1>>
              ELSE Between(Get(out), Least(reported), Greatest(reported))

(* C9 as stated: every metric is reduced over the entries that report it,  *)
(* and a metric no entry of the group reports is absent from the daily     *)
(* period.                                                                 *)
C9_AllAbsentIsAbsent ==
    Done("aggregate_daily_from_periods") =>
        \A i \in DOMAIN Dailies :
            LET entries == GroupOf(Dailies[i])
            IN  \A f \in ReducedFields :
                   /\ ReducedOverReported(entries, Dailies[i], f)
                   /\ ReportedValues(entries, f) = {} => Dailies[i].values[f] = None

(* C9: every reduced metric of a daily period is computed from the entries *)
(* of the group that report it (a sum is their sum, any other reduction    *)
(* lies between their least and greatest value); a metric no entry reports *)
(* is absent, never 0, except that temperature_high_c and                  *)
(* temperature_low_c are absent only when no entry reports temperature_c   *)
(* either.                                                                 *)
C9_ReducedOverReported ==
    Done("aggregate_daily_from_periods") =>
        \A i \in DOMAIN Dailies :
            LET entries == GroupOf(Dailies[i])
                temps == ReportedValues(entries, "temperature_c")
            IN  \A f \in ReducedFields :
                   LET fallback == IF f \in {"temperature_high_c", "temperature_low_c"}
                                   THEN temps ELSE {}
                       out == Dailies[i].values[f]
                   IN  /\ ReducedOverReported(entries, Dailies[i], f)
                       /\ (ReportedValues(entries, f) = {} /\ fallback = {}) => out = None
                       /\ (ReportedValues(entries, f) = {} /\ fallback # {})
                             => /\ out # None
                                /\ Between(Get(out), Least(fallback), Greatest(fallback))

(* A day of three entries, one of which lacks relative_humidity while the  *)
(* other two report 0 and 21, has been aggregated: the mean is 21/2 and    *)
(* the unreported dewpoint_c is absent.                                    *)
C9_Witness ==
    /\ Done("aggregate_daily_from_periods")
    /\ \E i \in DOMAIN Dailies :
          LET entries == GroupOf(Dailies[i])
          IN  /\ Len(entries) = 3
              /\ \E j \in DOMAIN entries : entries[j].values["relative_humidity"] = None
              /\ ReportedValues(entries, "relative_humidity") = {0, 21}
              /\ Dailies[i].values["relative_humidity"] = Some(<<21, 2>>)
              /\ Dailies[i].values["dewpoint_c"] = None

(* The explicit values if any entry reports one, else the temperatures. *)
ExtremeSource(entries, f) ==
    IF ReportedValues(entries, f) # {} THEN ReportedValues(entries, f)
    ELSE ReportedValues(entries, "temperature_c")

(* C10: temperature_high_c of a day is the greatest explicit high when an  *)
(* entry reports one, otherwise the greatest temperature_c of the group;   *)
(* temperature_low_c is the least explicit low, otherwise the least        *)
(* temperature_c; temperatures 10, 12, 14 without explicit high or low     *)
(* give high 14, low 10 and mean temperature 12.                           *)
C10_HighLowFallback ==
    Done("aggregate_daily_from_periods") =>
        \A i \in DOMAIN Dailies :
            LET entries == GroupOf(Dailies[i])
                highs == ExtremeSource(entries, "temperature_high_c")
                lows == ExtremeSource(entries, "temperature_low_c")
                temps == [j \in DOMAIN entries |-> entries[j].values["temperature_c"]]
            IN  /\ Dailies[i].values["temperature_high_c"]
                      = IF highs = {} THEN None ELSE Some(<<Greatest(highs), 1>>)
                /\ Dailies[i].values["temperature_low_c"]
                      = IF lows = {} THEN None ELSE Some(<<Least(lows), 1>>)
                /\ (/\ temps = <<Some(10), Some(12), Some(14)>>
                    /\ ReportedValues(entries, "temperature_high_c") = {}
                    /\ ReportedValues(entries, "temperature_low_c") = {})
                      => /\ Dailies[i].values["temperature_high_c"] = Some(<<14, 1>>)
                         /\ Dailies[i].values["temperature_low_c"] = Some(<<10, 1>>)
                         /\ Dailies[i].values["temperature_c"] = Some(<<12, 1>>)

(* Temperatures 10, 12, 14 with no explicit high or low have been          *)
(* aggregated into a day with high 14.                                     *)
C10_Witness ==
    /\ Done("aggregate_daily_from_periods")
    /\ Len(Dailies) = 1
    /\ [j \in DOMAIN call.periods |-> call.periods[j].values["temperature_c"]]
          = <<Some(10), Some(12), Some(14)>>
    /\ \A j \in DOMAIN call.periods : call.periods[j].values["temperature_high_c"] = None
    /\ Dailies[1].values["temperature_high_c"] = Some(<<14, 1>>)

(* The local calendar dates on which input periods start. *)
InputDates == {LocalDate(call.periods[i].start_time.utc, call.tz_name) : i \in DOMAIN call.periods}

DailyDate(i) == LocalDate(Dailies[i].start_time.utc, call.tz_name)

(* C11: aggregate_daily_from_periods returns one period per distinct local *)
(* date of the input starts, in ascending order of that date, and a daily  *)
(* period sums the precipitation of exactly the input periods of its own   *)
(* local date, whatever the order of the input.                            *)
C11_OnePeriodPerLocalDate ==
    Done("aggregate_daily_from_periods") =>
        /\ result.status = "ok"
        /\ Len(Dailies) = Cardinality(InputDates)
        /\ {DailyDate(i) : i \in DOMAIN Dailies} = InputDates
        /\ \A i, j \in DOMAIN Dailies : i < j => DailyDate(i) < DailyDate(j)
        /\ \A i \in DOMAIN Dailies :
              LET own == GroupOf(Dailies[i])
              IN  Dailies[i].values["precipitation_mm"]
                     = IF ReportedValues(own, "precipitation_mm") = {} THEN None
                       ELSE Some(<<ReportedSum(own, "precipitation_mm", Len(own)), 1>>)

(* Three periods given out of date order, the first and the last on the    *)
(* same Los Angeles date, have been aggregated into two days, the earlier  *)
(* date first with the precipitation of its single period.                 *)
C11_Witness ==
    /\ Done("aggregate_daily_from_periods")
    /\ call.tz_name = "America/Los_Angeles"
    /\ Len(call.periods) = 3
    /\ call.periods[1].start_time.utc > call.periods[2].start_time.utc
    /\ LocalDate(call.periods[1].start_time.utc, call.tz_name)
          = LocalDate(call.periods[3].start_time.utc, call.tz_name)
    /\ Len(Dailies) = 2
    /\ Dailies[1].values["precipitation_mm"] = Some(<<1, 1>>)
    /\ Dailies[2].values["precipitation_mm"] = Some(<<2, 1>>)


(* The instant at which the wall clock of the zone reads 00:00 of a date. *)
IsLocalMidnight(t, date, tz_name) == t + utcoffset(tz_name, t) = date * DAY

(* C24: a daily period starts at the local midnight of its date and ends   *)
(* at the local midnight of the next date, also on a date on which the     *)
(* UTC offset of the zone changes, and carries the provider, location and  *)
(* issued_at of the first input period of its group.                       *)
C24_SpansLocalDay ==
    Done("aggregate_daily_from_periods") =>
        \A i \in DOMAIN Dailies :
            LET first == GroupOf(Dailies[i])[1]
            IN  /\ IsLocalMidnight(Dailies[i].start_time.utc, DailyDate(i), call.tz_name)
                /\ IsLocalMidnight(Dailies[i].end_time.utc, DailyDate(i) + 1, call.tz_name)
                /\ Dailies[i].provider = first.provider
                /\ Dailies[i].location = first.location
                /\ Dailies[i].issued_at = first.issued_at

SumFields ==
    {"precipitation_mm", "precipitation_amount_rain_mm", "precipitation_amount_snow_mm",
     "precipitation_amount_sleet_mm", "precipitation_amount_ice_mm",
     "precipitation_amount_snow_lwe_mm", "precipitation_amount_sleet_lwe_mm",
     "precipitation_amount_ice_lwe_mm", "evapotranspiration_mm", "sun_hours"}

MaxFields ==
    {"wind_speed_kph", "wind_gust_kph", "uv_index", "uv_health_concern",
     "precipitation_probability", "precipitation_probability_rain",
     "precipitation_probability_snow", "precipitation_probability_ice",
     "precipitation_probability_thunderstorm", "snow_depth_cm"}

MeanFields ==
    {"temperature_c", "temperature_apparent_c", "temperature_apparent_shade_c",
     "temperature_apparent_alt_c", "temperature_wind_chill_c", "temperature_wet_bulb_c",
     "temperature_wet_bulb_globe_c", "dewpoint_c", "relative_humidity", "visibility_km",
     "pressure_sea_level_kpa", "pressure_surface_kpa", "altimeter_kpa", "cloud_cover_pct",
     "cloud_base_km", "cloud_ceiling_km", "precipitation_rate_rain_mm_hr",
     "precipitation_rate_snow_mm_hr", "precipitation_rate_sleet_mm_hr",
     "precipitation_rate_freezing_rain_mm_hr", "precipitation_rate_ice_mm_hr"}

(* The first value of a field in the order of the entries. *)
FirstReported(entries, f) ==
    Get(entries[CHOOSE j \in DOMAIN entries :
                   /\ entries[j].values[f] # None
                   /\ \A k \in 1..(j - 1) : entries[k].values[f] = None].values[f])

(* A rational <<n, d>> is the mean of the values the entries report for f. *)
IsMeanOf(q, entries, f) ==
    LET reporting == Cardinality({j \in DOMAIN entries : entries[j].values[f] # None})
    IN  q[1] * reporting = ReportedSum(entries, f, Len(entries)) * q[2]

(* C25: of the values its group reports for a metric, a daily period holds *)
(* the sum for the accumulations, the greatest for wind speed and gust, UV *)
(* index and health concern, the probabilities and snow depth, the mean    *)
(* for the temperature, humidity, visibility, pressure, cloud and rate     *)
(* metrics, and the first in input order for the wind direction; its       *)
(* summary is absent.                                                      *)
C25_ReducerOfClass ==
    Done("aggregate_daily_from_periods") =>
        \A i \in DOMAIN Dailies :
            LET entries == GroupOf(Dailies[i])
            IN  /\ Dailies[i].values["summary"] = None
                /\ \A f \in SumFields \cup MaxFields \cup MeanFields \cup {"wind_direction_deg"} :
                      LET reported == ReportedValues(entries, f)
                          out == Dailies[i].values[f]
                      IN  reported # {} =>
                             /\ out # None
                             /\ f \in SumFields
                                   => Get(out) = <<ReportedSum(entries, f, Len(entries)), 1>>
                             /\ f \in MaxFields => Get(out) = <<Greatest(reported), 1>>
                             /\ f \in MeanFields => IsMeanOf(Get(out), entries, f)
                             /\ f = "wind_direction_deg"
                                   => Get(out) = <<FirstReported(entries, f), 1>>

(* Three entries of one day reporting cloud cover 0, 21 and 21 have been   *)
(* aggregated into the mean 14, and a day whose entries report the summary *)
(* has none.                                                               *)
C25_Witness ==
    /\ Done("aggregate_daily_from_periods")
    /\ Len(Dailies) = 1
    /\ [j \in DOMAIN call.periods |-> call.periods[j].values["cloud_cover_pct"]]
          = <<Some(0), Some(21), Some(21)>>
    /\ Dailies[1].values["cloud_cover_pct"] = Some(<<14, 1>>)
----------------------------------------------------------------------------
(* Properties of the provider mappers.                                     *)

ForecastMappers ==
    {"map_msc_geomet_forecast", "map_tomorrow_io_forecast", "map_tomorrow_io_daily_forecast",
     "map_openweather_forecast", "map_openweather_onecall_hourly",
     "map_openweather_onecall_daily", "map_accuweather_minute_forecast",
     "map_accuweather_hourly_forecast", "map_accuweather_daily_forecast"}

(* The argument of each mapper that carries the timestamps of the payload. *)
MapperArguments ==
    [map_msc_geomet_observation |-> [times |-> "observed"],
     map_msc_geomet_forecast |-> [times |-> "periods"],
     map_tomorrow_io_observation |-> [times |-> "time"],
     map_tomorrow_io_forecast |-> [times |-> "intervals"],
     map_tomorrow_io_daily_forecast |-> [times |-> "intervals"],
     map_openweather_observation |-> [times |-> "dt"],
     map_openweather_forecast |-> [times |-> "entries"],
     map_openweather_onecall_hourly |-> [times |-> "entries"],
     map_openweather_onecall_daily |-> [times |-> "entries"],
     map_accuweather_minute_forecast |-> [times |-> "summaries"],
     map_accuweather_observation |-> [times |-> "payload"],
     map_accuweather_hourly_forecast |-> [times |-> "payload"],
     map_accuweather_daily_forecast |-> [times |-> "daily"],
     map_ambient_weather_observation |-> [times |-> "payload"]]

Mapped == call.op \in DOMAIN MapperArguments /\ result.status # "pending"

(* The coordinate fields of the call: of an Ambient Weather payload, the   *)
(* coordinates of its only device.                                         *)
CoordinatesOf(c) ==
    IF c.op \in {"map_msc_geomet_observation", "map_msc_geomet_forecast"}
    THEN c.coordinates
    ELSE IF "latitude" \in DOMAIN c THEN <<c.latitude, c.longitude>>
    ELSE IF Len(c.payload) = 1 THEN <<c.payload[1].lat, c.payload[1].lon>>
    ELSE <<>>

(* The optional start of every interval of a forecast payload, the         *)
(* optional observation time of an observation payload.                    *)
TimestampsOf(c) ==
    CASE c.op = "map_msc_geomet_forecast" ->
            <<c.issued>> \o [i \in DOMAIN c.periods |-> c.periods[i].start]
      [] c.op = "map_accuweather_minute_forecast" ->
            [i \in DOMAIN c.summaries |-> c.summaries[i].StartMinute]
      [] c.op = "map_ambient_weather_observation" ->
            [i \in DOMAIN c.payload |-> c.payload[i].dateutc]
      [] OTHER -> LET field == MapperArguments[c.op].times
                  IN  IF field \in {"observed", "time", "dt"}
                      THEN <<c[field]>> ELSE c[field]

HasCoordinates(c) ==
    Len(CoordinatesOf(c)) = 2 /\ \A i \in 1..2 : CoordinatesOf(c)[i] = "value"

LacksCoordinates(c) ==
    /\ c.op = "map_ambient_weather_observation" => Len(c.payload) <= 1
    /\ \A i \in DOMAIN CoordinatesOf(c) : CoordinatesOf(c)[i] \in {"absent", "null"}

MissesTimestamp(c) == \E i \in DOMAIN TimestampsOf(c) : TimestampsOf(c)[i] = None

(* C5: a call of a mapper on a payload (with coordinates) that lacks the   *)
(* observation time, the issue time or the start of a period raises        *)
(* ValueError; a call that returns periods returns one for every element   *)
(* of the payload.                                                         *)
C5_MissingTimestampIsFatal ==
    (Mapped /\ HasCoordinates(call)) =>
        /\ MissesTimestamp(call) => result.status = "ValueError"
        /\ (call.op = "map_msc_geomet_forecast" /\ result.status = "ok")
              => /\ Len(result.value) = Len(call.periods)
                 /\ \A i \in DOMAIN result.value :
                       Some(result.value[i].start_time.utc) = call.periods[i].start

(* C6: a call of a mapper with neither a latitude nor a longitude, in the  *)
(* payload or from the caller, raises ValueError whatever the rest of the  *)
(* payload holds.                                                          *)
C6_MissingCoordinatesIsFatal ==
    (Mapped /\ LacksCoordinates(call)) => result.status = "ValueError"

(* C7: every period a forecast mapper returns ends strictly after it       *)
(* starts.                                                                 *)
C7_EndAfterStart ==
    (call.op \in ForecastMappers /\ result.status = "ok") =>
        \A i \in DOMAIN result.value :
            result.value[i].end_time.utc > result.value[i].start_time.utc

(* C8: every period a forecast mapper or aggregate_daily_from_periods      *)
(* returns was issued at or before its start.                              *)
C8_IssuedBeforeStart ==
    (call.op \in ForecastMappers \cup {"aggregate_daily_from_periods"}
       /\ result.status = "ok") =>
        \A i \in DOMAIN result.value :
            result.value[i].issued_at.utc <= result.value[i].start_time.utc

----------------------------------------------------------------------------
(* Properties of the device selection of Ambient Weather.                  *)

(* Every ordering of the devices of a payload. *)
Orderings(payload) ==
    {[i \in DOMAIN payload |-> payload[p[i]]] :
        p \in {q \in [DOMAIN payload -> DOMAIN payload] :
                  \A i, j \in DOMAIN payload : q[i] = q[j] => i = j}}

SelectedWithoutMac ==
    /\ call.op = "map_ambient_weather_observation"
    /\ result.status # "pending"
    /\ call.device_mac = None
    /\ Len(call.payload) > 1

(* The devices of the payload whose macAddress no other device's precedes. *)
LeastDevices(payload) ==
    {i \in DOMAIN payload : \A j \in DOMAIN payload :
        MacRank(mac_key(payload[i])) <= MacRank(mac_key(payload[j]))}

----------------------------------------------------------------------------
(* Properties of load_config.                                              *)

Loaded == call.op = "load_config" /\ result.status # "pending"

(* The optional provider keys of the environment with a value that is not  *)
(* blank.                                                                  *)
ProvidedKeys(env) ==
    {key \in DOMAIN env \cap (WxKeys \ REQUIRED_KEYS) : strip(env[key]) # <<>>}

(* The value of a key without its surrounding whitespace, empty for a key  *)
(* that is not set.                                                        *)
Word(env, key) == IF key \in DOMAIN env THEN strip(env[key]) ELSE <<>>

IsNumberWithin(word, min_value, max_value) ==
    /\ Len(word) = 1
    /\ word[1] \in DOMAIN Numbers
    /\ min_value <= Numbers[word[1]]
    /\ Numbers[word[1]] <= max_value

ValidOnceStripped(env) ==
    /\ IsNumberWithin(Word(env, "WX_LAT"), 0 - 90, 90)
    /\ IsNumberWithin(Word(env, "WX_LON"), 0 - 180, 180)
    /\ Word(env, "WX_TZ") \in {<<zone>> : zone \in ZoneNames}

(* C18: load_config validates the values of WX_LAT, WX_LON and WX_TZ       *)
(* without their surrounding whitespace, and returns the stripped timezone *)
(* and the stripped value of every optional provider key whose value is    *)
(* not blank, and no other provider key.                                   *)
C18_ValuesAreStripped ==
    Loaded =>
        /\ result.status = IF ValidOnceStripped(call.env) THEN "ok" ELSE "ConfigError"
        /\ result.status = "ok" =>
              /\ result.value.timezone = strip(call.env["WX_TZ"])
              /\ DOMAIN result.value.provider_keys = ProvidedKeys(call.env)
              /\ \A key \in ProvidedKeys(call.env) :
                    result.value.provider_keys[key] = strip(call.env[key])

----------------------------------------------------------------------------
(* Properties of send_with_retries.                                        *)

AuthStatuses == {401, 403}

RequestStatuses == (400..499) \ {401, 403, 408, 429}

IsResponse(outcome, statuses) == outcome.kind = "Response" /\ outcome.status \in statuses

(* C19: a response with status 401 or 403, or with another 4xx status      *)
(* than 408 and 429, is the last outcome of client.send; it has been       *)
(* raised as ProviderAuthError, respectively ProviderRequestError, and the *)
(* only sleeps are those between the sends before it.                      *)
C19_NonRetryableRaisedAtOnce ==
    call.op = "send_with_retries" =>
        \A i \in DOMAIN sent :
            IsResponse(sent[i], AuthStatuses \cup RequestStatuses) =>
                /\ i = Len(sent)
                /\ pc = "left"
                /\ Len(sleeps) = i - 1
                /\ result.status = IF sent[i].status \in AuthStatuses
                                   THEN "ProviderAuthError" ELSE "ProviderRequestError"

C19_Witness ==
    /\ call.op = "send_with_retries"
    /\ call.retries = 2
    /\ Len(sent) = 2
    /\ IsResponse(sent[2], {403})
    /\ result.status = "ProviderAuthError"
    /\ Len(sleeps) = 1

(* A retryable outcome: a rate limit, a request timeout, a server error,   *)
(* or an exception of the transport.                                       *)
Retryable(outcome) ==
    \/ outcome.kind \in {"TimeoutException", "TransportError"}
    \/ IsResponse(outcome, {408, 429} \cup (500..599))

Capped(a, b) == IF a <= b THEN a ELSE b

(* The delay C20 states for the retry after the outcome of attempt i. *)
StatedDelay(outcome, i) ==
    IF IsResponse(outcome, {429, 503}) /\ outcome.retry_after # None
          /\ Get(outcome.retry_after) \in DOMAIN HeaderSeconds
    THEN Capped(HeaderSeconds[Get(outcome.retry_after)], call.retry_after_cap_seconds)
    ELSE Capped(call.backoff_seconds * (2 ^ i), call.backoff_cap_seconds)

(* C20: every sleep follows a retryable outcome of an attempt i < retries  *)
(* and lasts the stated delay; every such outcome is followed by one sleep *)
(* and then one send, so that there is one sleep per send but the last.    *)
C20_OneSleepPerRetry ==
    call.op = "send_with_retries" =>
        /\ Len(sleeps) = IF pc = "send" THEN Len(sent)
                         ELSE IF sent = <<>> THEN 0 ELSE Len(sent) - 1
        /\ \A i \in DOMAIN sleeps :
              /\ Retryable(sent[i])
              /\ i - 1 < call.retries
              /\ sleeps[i] = StatedDelay(sent[i], i - 1)
        /\ \A i \in DOMAIN sent :
              (Retryable(sent[i]) /\ i - 1 < call.retries) =>
                  \/ i = Len(sent) /\ pc = "sleep"
                  \/ i = Len(sent) /\ pc = "send" /\ Len(sleeps) = i
                  \/ i < Len(sent) /\ Len(sleeps) >= i

ProviderErrors ==
    {"ProviderAuthError", "ProviderRateLimitError", "ProviderTransientError",
     "ProviderRequestError", "ProviderPayloadError"}

(* The call has ended: it returned a response with a 2xx status or raised  *)
(* a ProviderError.                                                        *)
Ended ==
    /\ pc = "left"
    /\ \/ result.status = "ok" /\ IsResponse(result.value, 200..299)
       \/ result.status \in ProviderErrors

(* At most retries + 1 sends; the loop is left exactly with an ended call; *)
(* a retryable outcome of the last attempt has been raised by its kind     *)
(* with no sleep after it.                                                 *)
EndsWithinRetries ==
    /\ Len(sent) <= call.retries + 1
    /\ pc = "left" <=> result.status # "pending"
    /\ pc = "left" => Ended
    /\ (sent # <<>> /\ Len(sent) = call.retries + 1 /\ Retryable(sent[Len(sent)])) =>
          /\ Ended
          /\ Len(sleeps) = call.retries
          /\ result.status = IF IsResponse(sent[Len(sent)], {429})
                             THEN "ProviderRateLimitError" ELSE "ProviderTransientError"

----------------------------------------------------------------------------
(* Properties of the Tomorrow.io forecast mappers.                         *)

(* The duration of one unit of the timeline of the mapper. *)
UnitOf(op) == IF op = "map_tomorrow_io_daily_forecast" THEN DAY ELSE HOUR

MappedTomorrowIoForecast ==
    /\ call.op \in {"map_tomorrow_io_forecast", "map_tomorrow_io_daily_forecast"}
    /\ result.status = "ok"

(* C22: a period of a Tomorrow.io forecast ends at the start of the next   *)
(* interval when there is one, and the last period one unit of the         *)
(* timeline after its start, never at its start.                           *)
C22_EndIsNextStart ==
    MappedTomorrowIoForecast =>
        /\ Len(result.value) = Len(call.intervals)
        /\ \A i \in DOMAIN result.value :
              /\ result.value[i].start_time.utc = Get(call.intervals[i])
              /\ i < Len(call.intervals)
                    => result.value[i].end_time.utc = Get(call.intervals[i + 1])
              /\ i = Len(call.intervals)
                    => /\ result.value[i].end_time.utc
                             = result.value[i].start_time.utc + UnitOf(call.op)
                       /\ result.value[i].end_time # result.value[i].start_time

C22_Witness ==
    /\ MappedTomorrowIoForecast
    /\ call.op = "map_tomorrow_io_daily_forecast"
    /\ call.intervals = <<Some(0), Some(2 * HOUR)>>
    /\ result.value[1].end_time.utc = 2 * HOUR
    /\ result.value[2].end_time.utc = 2 * HOUR + DAY

RECURSIVE ReportedIntensity(_, _)
(* The sum of the intensities an interval reports among the first n keys. *)
ReportedIntensity(values, n) ==
    IF n = 0 THEN 0
    ELSE ReportedIntensity(values, n - 1)
            + (IF values[INTENSITY_KEYS[n]] # None THEN Get(values[INTENSITY_KEYS[n]]) ELSE 0)

(* C23: the precipitation_mm of a period of map_tomorrow_io_forecast whose *)
(* interval reports an intensity is the sum of the reported intensities    *)
(* multiplied by the hours from its start_time to its end_time, for the    *)
(* last interval and for any spacing of the intervals.                     *)
C23_IntensityTimesHours ==
    (call.op = "map_tomorrow_io_forecast" /\ result.status = "ok") =>
        \A i \in DOMAIN result.value :
            LET period == result.value[i]
                out == period.precipitation_mm
            IN  IF \A key \in DOMAIN call.values[i] : call.values[i][key] = None
                THEN out = None
                ELSE /\ out # None
                     /\ Get(out)[1] * HOUR
                           = ReportedIntensity(call.values[i], Len(INTENSITY_KEYS))
                                * (period.end_time.utc - period.start_time.utc) * Get(out)[2]

----------------------------------------------------------------------------
(* Properties of the resolution of canonical values.                       *)

(* The fields of the call that can report the canonical value, in the      *)
(* order of their priority.                                                *)
Candidates ==
    CASE call.op = "tomorrow_io_daily_pop" ->
            <<call.values.precipitationProbabilityMax, call.values.precipitationProbability,
              call.values.precipitationProbabilityAvg>>
      [] call.op = "extract_onecall_precipitation" ->
            IF call.rain.kind # "nothing"
            THEN <<call.rain.number, call.rain.h1, call.rain.h3>>
            ELSE <<call.snow.number, call.snow.h1, call.snow.h3>>
      [] call.op = "accuweather_precip_total" ->
            <<call.total_liquid, call.rain_block, call.snow_block>>
      [] call.op = "msc_geomet_temperature_high" ->
            [i \in DOMAIN call.temps |->
                IF call.temps[i].class = "high" THEN call.temps[i].value ELSE None]
            \o <<call.temperatureHigh>>
      [] OTHER -> <<>>

(* The reported field of the highest priority holds 0. *)
ReportsZero ==
    \E i \in DOMAIN Candidates :
        /\ Candidates[i] = Some(0)
        /\ \A j \in 1..(i - 1) : Candidates[j] = None

(* C27: when the field of the highest priority that a payload reports for  *)
(* a quantity holds 0, the canonical value is 0, neither absent nor the    *)
(* value of a field of lower priority; a total of accumulations that are   *)
(* all 0 is 0.                                                             *)
C27_ZeroIsKept ==
    (call.op \in {"tomorrow_io_daily_pop", "tomorrow_io_daily_precip_total",
                  "extract_onecall_precipitation", "accuweather_precip_total",
                  "msc_geomet_temperature_high"} /\ result.status = "ok") =>
        /\ ReportsZero => result.value = Some(0)
        /\ (/\ call.op = "tomorrow_io_daily_precip_total"
            /\ Some(0) \in Range(call.sums)
            /\ Range(call.sums) \subseteq {None, Some(0)}) => result.value = Some(0)

----------------------------------------------------------------------------
(* Properties of collect_all.                                              *)

CollectAllReturned == call.op = "collect_all" /\ pc = "done"

(* The error entries of the result whose prefix is the provider. *)
ErrorsOf(provider) ==
    {i \in DOMAIN result.value.errors : result.value.errors[i][1] = provider}

(* The committed raw_payloads rows of the provider. *)
RawRowsOf(provider) ==
    {i \in DOMAIN database.raw_payloads : database.raw_payloads[i].provider = provider}

Keyed(provider) == RequiredKeys[provider] \subseteq call.provider_keys

(* C28: an exception in one provider's block is recorded as one entry of   *)
(* errors prefixed with the provider's name and does not stop the run:     *)
(* every provider whose keys are configured is attempted in the fixed      *)
(* order, the transaction is committed and the connection is closed.       *)
C28_ErrorsDoNotStopTheRun ==
    CollectAllReturned =>
        /\ frame.attempted = SelectSeq(<<"ambient_weather", "msc_geomet", "msc_rdps_prognos",
                                         "openweather", "tomorrow_io", "accuweather">>, Keyed)
        /\ \A i \in DOMAIN result.value.errors :
              /\ result.value.errors[i][1] \in DOMAIN Fetches
              /\ result.value.errors[i][2] = ": "
              /\ Cardinality(ErrorsOf(result.value.errors[i][1])) = 1
        /\ \A provider \in DOMAIN Fetches \ {"msc_rdps_prognos"} :
              (Keyed(provider) /\ Cardinality(RawRowsOf(provider)) < Len(Fetches[provider]))
                 => Cardinality(ErrorsOf(provider)) = 1
        /\ frame.connection.state = "closed"
        /\ database.raw_payloads = frame.connection.raw_payloads
        /\ database.data_points = frame.connection.data_points

(* The first provider that ran failed, and a later one stored a payload    *)
(* that was committed.                                                     *)
C28_Witness ==
    /\ CollectAllReturned
    /\ ErrorsOf("msc_geomet") # {}
    /\ RawRowsOf("msc_geomet") = {}
    /\ RawRowsOf("accuweather") # {}
    /\ frame.connection.state = "closed"

----------------------------------------------------------------------------
(* Properties of run_hourly.                                               *)

(* The data_points rows whose run_at lies in the hour of t. *)
RowsOfHour(data_points, t) ==
    {i \in DOMAIN data_points : data_points[i].run_at \div HOUR = t \div HOUR}

ReturnedZeroWithoutCollecting(inv) ==
    inv.pc = "done" /\ inv.returned = Some(0) /\ ~inv.collected

----------------------------------------------------------------------------
(* Properties of capture_payload.                                          *)

Captured == call.op = "capture_payload" /\ result.status = "ok"

ValuesOf(dict) == {dict[key] : key \in DOMAIN dict}

(* C30: the capture of a request holds no value of a sensitive query       *)
(* parameter or header, in request_url, request_params or request_headers, *)
(* and two requests that differ only in those values have the same three   *)
(* fields.                                                                 *)
C30_SecretsAreRedacted ==
    Captured =>
        LET capture == result.value.capture
            twin == result.value.twin
        IN  /\ Range(capture.request_url) \cap {"secret-a", "secret-b"} = {}
            /\ ValuesOf(capture.request_params) \cap {"secret-a", "secret-b"} = {}
            /\ ValuesOf(capture.request_headers) \cap {"secret-a", "secret-b"} = {}
            /\ capture.request_url = twin.request_url
            /\ capture.request_params = twin.request_params
            /\ capture.request_headers = twin.request_headers

(* A request with a secret in its query and in a capitalised header. *)
C30_Witness ==
    /\ Captured
    /\ call.request # call.twin
    /\ call.request.url.query # None
    /\ "Authorization" \in Keys(call.request.headers)
    /\ "REDACTED" \in ValuesOf(result.value.capture.request_params)
    /\ "lat" \in DOMAIN result.value.capture.request_params
====
